---- MODULE Spec2Model ----
(***************************************************************************)
(* State-machine model of the analysis pipeline of the event-generation    *)
(* tool: the response parser and provider orchestrator of                  *)
(* AIAnalysisService (docs/ai-integration.md) and the feedback learning    *)
(* loop of RAGService (services/ragService).                               *)
(*                                                                         *)
(* Text is a sequence of characters.  A run of word characters (\w+) that  *)
(* the code never looks inside is kept as one element ("events", "x",      *)
(* "true", "7"); every character the code's scanners and regular           *)
(* expressions distinguish is an element of its own.  A JavaScript value   *)
(* is the canonical JSON text of the value (a character sequence without   *)
(* insignificant whitespace); undefined is the empty sequence.             *)
(***************************************************************************)
EXTENDS Integers, Sequences, FiniteSets, TLC

\* ------------------------------------------------------------------------
\* Characters
\* ------------------------------------------------------------------------
QUOTE == "\""
NL == "\n"
SP == " "
\* the markdown fence (three backquotes), alone and followed by json
FENCE == "~~~"
FENCEJSON == "~~~json"

IsWs(c) == c \in {SP, NL}

\* \w : everything that is not punctuation, whitespace or a fence
IsWord(c) == c \notin {QUOTE, NL, SP, FENCE, FENCEJSON, "{", "}", "[", "]", ",", ":", "."}

\* the bare words JSON.parse accepts as a scalar literal
IsNumberTok(c) == c \in {"0", "1", "2", "7"}
IsScalarTok(c) == IsNumberTok(c) \/ c \in {"true", "false", "null"}

Undefined == << >>

\* ------------------------------------------------------------------------
\* String primitives (String.prototype.*), 1-based; 0 stands for -1
\* ------------------------------------------------------------------------
IndexOf(t, c) ==
  IF \E i \in 1..Len(t) : t[i] = c
  THEN CHOOSE i \in 1..Len(t) : t[i] = c /\ \A j \in 1..(i-1) : t[j] # c
  ELSE 0

LastIndexOf(t, c) ==
  IF \E i \in 1..Len(t) : t[i] = c
  THEN CHOOSE i \in 1..Len(t) : t[i] = c /\ \A j \in (i+1)..Len(t) : t[j] # c
  ELSE 0

Substring(t, from) == SubSeq(t, from, Len(t))

\* number of leading whitespace characters of t from position i on
RECURSIVE WsRun(_, _)
WsRun(t, i) == IF i <= Len(t) /\ IsWs(t[i]) THEN 1 + WsRun(t, i + 1) ELSE 0

RECURSIVE TrimEnd(_)
TrimEnd(t) == IF Len(t) > 0 /\ IsWs(t[Len(t)]) THEN TrimEnd(SubSeq(t, 1, Len(t) - 1)) ELSE t

Trim(t) == TrimEnd(Substring(t, WsRun(t, 1) + 1))

\* number of whitespace characters that end at position i
RECURSIVE WsRunBack(_, _)
WsRunBack(t, i) == IF i >= 1 /\ IsWs(t[i]) THEN 1 + WsRunBack(t, i - 1) ELSE 0

\* the concatenation parts[lo] \o ... \o parts[hi]
RECURSIVE ConcatRange(_, _, _)
ConcatRange(parts, lo, hi) ==
  IF lo > hi THEN << >>
  ELSE IF lo = hi THEN parts[lo]
  ELSE LET mid == (lo + hi) \div 2 IN
       ConcatRange(parts, lo, mid) \o ConcatRange(parts, mid + 1, hi)

\* the text in which character k of t is replaced by Out(k)
Rewrite(t, Out(_)) == ConcatRange([k \in 1..Len(t) |-> Out(k)], 1, Len(t))

\* the text without the characters k for which Removed(k)
Remove(t, Removed(_)) ==
  LET Out(k) == IF Removed(k) THEN << >> ELSE <<t[k]>> IN Rewrite(t, Out)

\* the running sums base + w[lo], base + w[lo] + w[lo+1], ...
RECURSIVE RunningSums(_, _, _, _)
RunningSums(w, lo, hi, base) ==
  IF lo > hi THEN << >>
  ELSE IF lo = hi THEN <<base + w[lo]>>
  ELSE LET mid == (lo + hi) \div 2
           left == RunningSums(w, lo, mid, base)
       IN left \o RunningSums(w, mid + 1, hi, left[Len(left)])

\* InString(t)[k] : character k of t lies between two quotes
InString(t) ==
  LET quotes == RunningSums([k \in 1..Len(t) |-> IF t[k] = QUOTE THEN 1 ELSE 0], 1, Len(t), 0)
  IN [k \in 1..Len(t) |-> t[k] # QUOTE /\ quotes[k] % 2 = 1]

\* text.replace(/FENCEjson\s*/g, '')
StripFenceOpen(t) ==
  LET Removed(k) ==
        \/ t[k] = FENCEJSON
        \/ /\ IsWs(t[k])
           /\ LET b == k - WsRunBack(t, k) IN b >= 1 /\ t[b] = FENCEJSON
  IN Remove(t, Removed)

\* text.replace(/\s*FENCE/g, '')
StripFenceClose(t) ==
  LET Removed(k) ==
        \/ t[k] = FENCE
        \/ /\ IsWs(t[k])
           /\ LET e == k + WsRun(t, k) IN e <= Len(t) /\ t[e] = FENCE
  IN Remove(t, Removed)

\* the loop over possibleStarts: only '{' at an index > 0 cuts the text
CutLeadingText(t) ==
  LET startIndex == IndexOf(t, "{") IN
  IF startIndex > 1 THEN Substring(t, startIndex) ELSE t

CleanText(analysisText) ==
  CutLeadingText(StripFenceClose(StripFenceOpen(Trim(analysisText))))

\* delimiter counting from position i on: the index where the count
\* returns to zero, else 0
CountFrom(t, i, open, close) ==
  RunningSums([k \in 1..Len(t) |-> IF k < i THEN 0
                                    ELSE IF t[k] = open THEN 1
                                    ELSE IF t[k] = close THEN -1 ELSE 0],
              1, Len(t), 0)

FirstBalanced(t, i, close, count) ==
  IF \E k \in i..Len(t) : t[k] = close /\ count[k] = 0
  THEN CHOOSE k \in i..Len(t) :
         /\ t[k] = close /\ count[k] = 0
         /\ \A j \in i..(k-1) : ~(t[j] = close /\ count[j] = 0)
  ELSE 0

BalancedEnd(t, i, open, close) == FirstBalanced(t, i, close, CountFrom(t, i, open, close))

\* Method 1: bracket or brace counting
SubstringTo(t, start, jsonEnd) == IF jsonEnd # 0 THEN SubSeq(t, start, jsonEnd) ELSE << >>

CountedFrom(t, arrayStart, objectStart) ==
  IF arrayStart # 0 /\ (objectStart = 0 \/ arrayStart < objectStart)
  THEN SubstringTo(t, arrayStart, BalancedEnd(t, arrayStart, "[", "]"))
  ELSE IF objectStart # 0
  THEN SubstringTo(t, objectStart, BalancedEnd(t, objectStart, "{", "}"))
  ELSE << >>

Method1(t) == CountedFrom(t, IndexOf(t, "["), IndexOf(t, "{"))

\* Method 2: /\{[\s\S]*?\}(?=\s*(?:FENCE|$|[^\s}]))/ : from the first '{' to the
\* first '}' whose next non-blank character is not '}'
Method2(t) ==
  LET s == IndexOf(t, "{")
      Ok(e) == /\ t[e] = "}"
               /\ LET n == e + 1 + WsRun(t, e + 1) IN n > Len(t) \/ t[n] # "}"
  IN IF s # 0 /\ \E e \in (s+1)..Len(t) : Ok(e)
     THEN SubSeq(t, s, CHOOSE e \in (s+1)..Len(t) : Ok(e) /\ \A f \in (s+1)..(e-1) : ~Ok(f))
     ELSE << >>

\* Method 3: first '{' to last '}'
Method3(t) ==
  LET firstBrace == IndexOf(t, "{")
      lastBrace == LastIndexOf(t, "}")
  IN IF firstBrace # 0 /\ lastBrace # 0 /\ lastBrace > firstBrace
     THEN SubSeq(t, firstBrace, lastBrace) ELSE << >>

\* Method 4: keep the lines that start with '{' or contain ':'
RECURSIVE SplitLines(_)
SplitLines(t) ==
  LET n == IndexOf(t, NL) IN
  IF n = 0 THEN <<t>> ELSE <<SubSeq(t, 1, n - 1)>> \o SplitLines(Substring(t, n + 1))

RECURSIVE JoinLines(_)
JoinLines(ls) ==
  IF ls = << >> THEN << >>
  ELSE IF Len(ls) = 1 THEN ls[1]
  ELSE ls[1] \o <<NL>> \o JoinLines(Tail(ls))

Method4(t) ==
  LET Keep(line) == (Trim(line) # << >> /\ Head(Trim(line)) = "{") \/ IndexOf(Trim(line), ":") # 0
      jsonLines == SelectSeq(SplitLines(t), Keep)
  IN IF Len(jsonLines) > 0 THEN Trim(JoinLines(jsonLines)) ELSE << >>

\* if (!jsonContent) { the next method }
OrElse(jsonContent, next) == IF jsonContent # << >> THEN jsonContent ELSE next

ExtractJson(cleanedText) ==
  OrElse(OrElse(OrElse(OrElse(Method1(cleanedText), Method2(cleanedText)),
                       Method3(cleanedText)),
                Method4(cleanedText)),
         cleanedText)

\* ------------------------------------------------------------------------
\* JSON.parse: a recogniser for the JSON grammar; each operator returns the
\* position after what it read, 0 when the text is not JSON
\* ------------------------------------------------------------------------
SkipWs(t, i) == i + WsRun(t, i)

\* a string literal: up to the next quote, no raw line break inside
JString(t, i) ==
  IF i > Len(t) \/ t[i] # QUOTE THEN 0
  ELSE IF \E j \in (i+1)..Len(t) : t[j] = QUOTE
       THEN LET j == CHOOSE j \in (i+1)..Len(t) :
                       t[j] = QUOTE /\ \A k \in (i+1)..(j-1) : t[k] # QUOTE
            IN IF \E k \in (i+1)..(j-1) : t[k] = NL THEN 0 ELSE j + 1
       ELSE 0

\* a literal: true, false, null, an integer or an integer with a fraction
JScalar(t, i) ==
  IF i > Len(t) \/ ~IsScalarTok(t[i]) THEN 0
  ELSE IF IsNumberTok(t[i]) /\ i + 2 <= Len(t) /\ t[i+1] = "." /\ IsNumberTok(t[i+2])
       THEN IF i + 3 <= Len(t) /\ (IsWord(t[i+3]) \/ t[i+3] = ".") THEN 0 ELSE i + 3
  ELSE IF i + 1 <= Len(t) /\ (IsWord(t[i+1]) \/ t[i+1] = ".") THEN 0 ELSE i + 1

RECURSIVE JValue(_, _), JMembers(_, _), JElements(_, _)
JValue(t, i) ==
  IF i > Len(t) THEN 0
  ELSE IF t[i] = QUOTE THEN JString(t, i)
  ELSE IF t[i] = "{"
       THEN LET j == SkipWs(t, i + 1) IN
            IF j <= Len(t) /\ t[j] = "}" THEN j + 1 ELSE JMembers(t, j)
  ELSE IF t[i] = "["
       THEN LET j == SkipWs(t, i + 1) IN
            IF j <= Len(t) /\ t[j] = "]" THEN j + 1 ELSE JElements(t, j)
  ELSE JScalar(t, i)

JMembers(t, i) ==
  LET k == JString(t, i)
      c == IF k = 0 THEN 0 ELSE SkipWs(t, k)
      v == IF c = 0 \/ c > Len(t) \/ t[c] # ":" THEN 0 ELSE JValue(t, SkipWs(t, c + 1))
      n == IF v = 0 THEN 0 ELSE SkipWs(t, v)
  IN IF n = 0 \/ n > Len(t) THEN 0
     ELSE IF t[n] = "," THEN JMembers(t, SkipWs(t, n + 1))
     ELSE IF t[n] = "}" THEN n + 1
     ELSE 0

JElements(t, i) ==
  LET v == JValue(t, i)
      n == IF v = 0 THEN 0 ELSE SkipWs(t, v)
  IN IF n = 0 \/ n > Len(t) THEN 0
     ELSE IF t[n] = "," THEN JElements(t, SkipWs(t, n + 1))
     ELSE IF t[n] = "]" THEN n + 1
     ELSE 0

\* JSON.parse(t) does not throw
JsonValid(t) ==
  LET e == JValue(t, SkipWs(t, 1)) IN e # 0 /\ SkipWs(t, e) = Len(t) + 1

\* the parsed value: the text without the whitespace outside strings
Canonical(t) ==
  LET inString == InString(t)
      Removed(k) == IsWs(t[k]) /\ ~inString[k]
  IN Remove(t, Removed)

JsonParse(t) == Canonical(t)

\* ------------------------------------------------------------------------
\* The repair of lines 1104-1108, one operator per replace
\* ------------------------------------------------------------------------
\* .replace(/,\s*}/g, '}') and .replace(/,\s*]/g, ']')
StripTrailingComma(t, close) ==
  LET Closes(k) == k <= Len(t) /\ t[k] = close
      Removed(k) ==
        \/ t[k] = "," /\ Closes(k + 1 + WsRun(t, k + 1))
        \/ /\ IsWs(t[k])
           /\ LET b == k - WsRunBack(t, k) IN b >= 1 /\ t[b] = ","
           /\ Closes(k + WsRun(t, k))
  IN Remove(t, Removed)

\* number of word characters from position i on
RECURSIVE WordRun(_, _)
WordRun(t, i) == IF i <= Len(t) /\ IsWord(t[i]) THEN 1 + WordRun(t, i + 1) ELSE 0

\* .replace(/(\w+):/g, '"$1":')
QuoteKeys(t) ==
  LET Out(k) ==
        IF /\ IsWord(t[k]) /\ (k = 1 \/ ~IsWord(t[k-1]))
           /\ LET e == k + WordRun(t, k) IN e <= Len(t) /\ t[e] = ":"
        THEN <<QUOTE, t[k]>>
        ELSE IF t[k] = ":" /\ k > 1 /\ IsWord(t[k-1]) THEN <<QUOTE, ":">>
        ELSE <<t[k]>>
  IN Rewrite(t, Out)

\* the characters of the class [^",[{}]
IsValueChar(c) == c \notin {QUOTE, ",", "[", "{", "}"}

\* number of value characters from position i on, and ending at position i
RECURSIVE ValueRun(_, _)
ValueRun(t, i) == IF i <= Len(t) /\ IsValueChar(t[i]) THEN 1 + ValueRun(t, i + 1) ELSE 0
RECURSIVE ValueRunBack(_, _)
ValueRunBack(t, i) == IF i >= 1 /\ IsValueChar(t[i]) THEN 1 + ValueRunBack(t, i - 1) ELSE 0

\* .replace(/:\s*([^",[{}]+)(?=\s*[,}])/g, ': "$1"') : in a run b..e of value
\* characters the match starts at its first ':' (position c), skips the
\* blanks after it and takes the rest of the run (g..e) as $1
QuoteValues(t) ==
  LET Out(k) ==
        IF ~IsValueChar(t[k]) THEN <<t[k]>>
        ELSE LET b == k - ValueRunBack(t, k) + 1
                 e == k + ValueRun(t, k) - 1
                 c == IF \E j \in b..e : t[j] = ":"
                      THEN CHOOSE j \in b..e : t[j] = ":" /\ \A i \in b..(j-1) : t[i] # ":"
                      ELSE 0
                 matched == c # 0 /\ e > c /\ e < Len(t) /\ t[e + 1] \in {",", "}"}
                 ws == WsRun(t, c + 1)
                 g == IF ws < e - c THEN c + 1 + ws ELSE e
             IN IF ~matched \/ k < c THEN <<t[k]>>
                ELSE IF k = c THEN <<":", SP, QUOTE>>
                ELSE IF k < g THEN << >>
                ELSE IF k < e THEN <<t[k]>>
                ELSE <<t[k], QUOTE>>
  IN Rewrite(t, Out)

FixCommonIssues(jsonContent) ==
  QuoteValues(QuoteKeys(StripTrailingComma(StripTrailingComma(jsonContent, "}"), "]")))

\* the text handed to the final JSON.parse
RepairedJson(jsonContent) ==
  IF JsonValid(jsonContent) THEN jsonContent ELSE FixCommonIssues(jsonContent)

\* ------------------------------------------------------------------------
\* JavaScript values (canonical JSON text) and the operations the code uses
\* ------------------------------------------------------------------------
Str(w) == <<QUOTE>> \o w \o <<QUOTE>>
JsNull == <<"null">>

IsStringVal(v) == v # << >> /\ v[1] = QUOTE
IsArrayVal(v) == v # << >> /\ v[1] = "["
IsObjectVal(v) == v # << >> /\ v[1] = "{"
IsNumberVal(v) == v # << >> /\ IsNumberTok(v[1])
IsBooleanVal(v) == v \in {<<"true">>, <<"false">>}

\* !v
Falsy(v) == v \in {Undefined, JsNull, <<"false">>, <<"0">>, Str(<< >>)}
\* a || b
Or(a, b) == IF Falsy(a) THEN b ELSE a

\* typeof v
TypeOf(v) ==
  IF v = Undefined THEN "undefined"
  ELSE IF IsStringVal(v) THEN "string"
  ELSE IF IsNumberVal(v) THEN "number"
  ELSE IF IsBooleanVal(v) THEN "boolean"
  ELSE "object"

\* the nesting depth after each character of v, brackets counted from
\* position i on, strings skipped
DepthFrom(v, i, inString) ==
  RunningSums([k \in 1..Len(v) |-> IF k < i \/ inString[k] THEN 0
                                    ELSE IF v[k] \in {"{", "["} THEN 1
                                    ELSE IF v[k] \in {"}", "]"} THEN -1 ELSE 0],
              1, Len(v), 0)

FirstZero(depth, i) ==
  CHOOSE k \in (i+1)..Len(depth) : depth[k] = 0 /\ \A j \in (i+1)..(k-1) : depth[j] # 0

\* index of the bracket that closes the one at position i
CloseIndex(v, i) == FirstZero(DepthFrom(v, i, InString(v)), i)

\* index of the last character of the value that starts at i
ValueEnd(v, i) ==
  IF v[i] = QUOTE THEN CHOOSE j \in (i+1)..Len(v) : v[j] = QUOTE /\ \A k \in (i+1)..(j-1) : v[k] # QUOTE
  ELSE IF v[i] \in {"{", "["} THEN CloseIndex(v, i)
  ELSE IF i + 2 <= Len(v) /\ v[i+1] = "." THEN i + 2
  ELSE i

\* the elements of an array value: the one from i to e, then the others
RECURSIVE ElementsFrom(_, _), ElementThen(_, _, _)
ElementsFrom(v, i) == IF v[i] = "]" THEN << >> ELSE ElementThen(v, i, ValueEnd(v, i))
ElementThen(v, i, e) ==
  <<SubSeq(v, i, e)>> \o (IF v[e + 1] = "," THEN ElementsFrom(v, e + 2) ELSE << >>)

Elements(v) == ElementsFrom(v, 2)

\* the key/value pairs of an object value as written: the pair whose key
\* is from i to k and whose value ends at e, then the others
RECURSIVE MembersFrom(_, _), MemberValue(_, _, _), MemberThen(_, _, _, _)
MembersFrom(v, i) == IF v[i] = "}" THEN << >> ELSE MemberValue(v, i, ValueEnd(v, i))
MemberValue(v, i, k) == MemberThen(v, i, k, ValueEnd(v, k + 2))
MemberThen(v, i, k, e) ==
  <<[key |-> SubSeq(v, i + 1, k - 1), val |-> SubSeq(v, k + 2, e)]>>
    \o (IF v[e + 1] = "," THEN MembersFrom(v, e + 2) ELSE << >>)

Members(v) == MembersFrom(v, 2)

\* the value of the last pair with key k, undefined when there is none
LastWith(ms, k) ==
  IF \A i \in 1..Len(ms) : ms[i].key # k THEN Undefined
  ELSE ms[CHOOSE i \in 1..Len(ms) : ms[i].key = k /\ \A j \in (i+1)..Len(ms) : ms[j].key # k].val

\* v[key] : undefined on anything but an object
Get(v, key) == IF ~IsObjectVal(v) THEN Undefined ELSE LastWith(Members(v), <<key>>)

\* Object.entries(v): own keys once each, integer keys first, in ascending
\* order, then the others in insertion order; an array has its indices
RECURSIVE IndexEntries(_, _)
IndexEntries(es, i) ==
  IF i > Len(es) THEN << >>
  ELSE <<[key |-> <<ToString(i - 1)>>, val |-> es[i]]>> \o IndexEntries(es, i + 1)

NumEntry(ms, n) ==
  IF \E i \in 1..Len(ms) : ms[i].key = <<n>>
  THEN <<[key |-> <<n>>, val |-> LastWith(ms, <<n>>)]>> ELSE << >>

NamedEntry(ms, i) ==
  IF /\ \A j \in 1..(i-1) : ms[j].key # ms[i].key
     /\ ~(Len(ms[i].key) = 1 /\ IsNumberTok(ms[i].key[1]))
  THEN <<[key |-> ms[i].key, val |-> LastWith(ms, ms[i].key)]>> ELSE << >>

RECURSIVE NamedFrom(_, _)
NamedFrom(ms, i) == IF i > Len(ms) THEN << >> ELSE NamedEntry(ms, i) \o NamedFrom(ms, i + 1)

OwnEntries(ms) ==
  NumEntry(ms, "0") \o NumEntry(ms, "1") \o NumEntry(ms, "2") \o NumEntry(ms, "7")
    \o NamedFrom(ms, 1)

ObjectEntries(v) ==
  IF IsArrayVal(v) THEN IndexEntries(Elements(v), 1)
  ELSE IF ~IsObjectVal(v) THEN << >>
  ELSE OwnEntries(Members(v))

\* the text a template literal inserts for a value
RECURSIVE ToText(_), JoinText(_)
ToText(v) ==
  IF v = Undefined THEN <<"undefined">>
  ELSE IF IsStringVal(v) THEN SubSeq(v, 2, Len(v) - 1)
  ELSE IF IsArrayVal(v) THEN JoinText(Elements(v))
  ELSE IF IsObjectVal(v) THEN <<"[object Object]">>
  ELSE v
JoinText(es) ==
  IF es = << >> THEN << >>
  ELSE (IF es[1] = JsNull THEN << >> ELSE ToText(es[1]))
         \o (IF Len(es) > 1 THEN <<",">> \o JoinText(Tail(es)) ELSE << >>)

RECURSIVE Flatten(_)
Flatten(ss) == IF ss = << >> THEN << >> ELSE Head(ss) \o Flatten(Tail(ss))

\* ------------------------------------------------------------------------
\* generateMockAnalysis: the fixed result (lines 1351-1878)
\* ------------------------------------------------------------------------
MockProperty(name, type, source, required, example, confidence, description) ==
  [name |-> name, type |-> type, source |-> source, required |-> required,
   example |-> example, confidence |-> confidence, description |-> description]

mockEvents == <<
  [id |-> Str(<<"event_1">>), name |-> Str(<<"feedBannerClicked">>), elementId |-> Str(<<"promoBanner">>),
     properties |-> <<
        MockProperty(Str(<<"bannerId">>), Str(<<"string">>), Str(<<"on-screen">>), <<"true">>, Str(<<"banner001">>), <<"0.95">>, Str(<<"Unique identifier for the clicked banner">>)),
        MockProperty(Str(<<"imageUrl">>), Str(<<"string">>), Str(<<"on-screen">>), <<"true">>, Str(<<"https://example.com/banner.jpg">>), <<"0.92">>, Str(<<"URL of the banner image">>)),
        MockProperty(Str(<<"redirectUrl">>), Str(<<"string">>), Str(<<"on-screen">>), <<"true">>, Str(<<"https://example.com/contest">>), <<"0.9">>, Str(<<"Destination URL when banner is clicked">>)),
        MockProperty(Str(<<"source">>), Str(<<"string">>), Str(<<"global">>), <<"true">>, Str(<<"homeScreen">>), <<"0.95">>, Str(<<"Screen where banner was clicked">>))>>,
     triggers |-> <<"[">> \o Str(<<"User clicks on promotional banner">>) \o <<"]">>, sources |-> <<"[">> \o Str(<<"Home Screen">>) \o <<"]">>,
     confidence |-> <<"0.93">>, category |-> Str(<<"user_action">>)],
  [id |-> Str(<<"event_2">>), name |-> Str(<<"roundSelected">>), elementId |-> Str(<<"matchCard">>),
     properties |-> <<
        MockProperty(Str(<<"roundId">>), Str(<<"number">>), Str(<<"on-screen">>), <<"true">>, <<"12345">>, <<"0.95">>, Str(<<"Unique round identifier">>)),
        MockProperty(Str(<<"contestJoinCount">>), Str(<<"number">>), Str(<<"global">>), <<"false">>, <<"2">>, <<"0.88">>, Str(<<"Number of contests user has already joined for this round">>)),
        MockProperty(Str(<<"isLineupOut">>), Str(<<"boolean">>), Str(<<"on-screen">>), <<"true">>, <<"true">>, <<"0.9">>, Str(<<"Whether team lineups are announced">>)),
        MockProperty(Str(<<"roundStatus">>), Str(<<"string">>), Str(<<"on-screen">>), <<"true">>, Str(<<"upcoming">>), <<"0.92">>, Str(<<"Current status of the round">>)),
        MockProperty(Str(<<"section">>), Str(<<"string">>), Str(<<"on-screen">>), <<"true">>, Str(<<"forYou">>), <<"0.85">>, Str(<<"Section where match was selected from">>)),
        MockProperty(Str(<<"slotPosition">>), Str(<<"number">>), Str(<<"on-screen">>), <<"false">>, <<"1">>, <<"0.8">>, Str(<<"Position of match card in the list">>)),
        MockProperty(Str(<<"tourId">>), Str(<<"number">>), Str(<<"on-screen">>), <<"true">>, <<"456">>, <<"0.92">>, Str(<<"Tournament identifier">>))>>,
     triggers |-> <<"[">> \o Str(<<"User clicks on match card">>) \o <<"]">>, sources |-> <<"[">> \o Str(<<"Home Screen">>) \o <<"]">>,
     confidence |-> <<"0.89">>, category |-> Str(<<"user_action">>)],
  [id |-> Str(<<"event_3">>), name |-> Str(<<"matchesTabInteracted">>), elementId |-> Str(<<"matchesTab">>),
     properties |-> <<
        MockProperty(Str(<<"matchesOption">>), Str(<<"string">>), Str(<<"on-screen">>), <<"true">>, Str(<<"today">>), <<"0.92">>, Str(<<"Selected tab option (forYou, today, tomorrow, etc.)">>)),
        MockProperty(Str(<<"previousTab">>), Str(<<"string">>), Str(<<"carried-forward">>), <<"false">>, Str(<<"forYou">>), <<"0.75">>, Str(<<"Previously selected tab">>))>>,
     triggers |-> <<"[">> \o Str(<<"User switches between match tabs">>) \o <<"]">>, sources |-> <<"[">> \o Str(<<"Home Screen">>) \o <<"]">>,
     confidence |-> <<"0.87">>, category |-> Str(<<"user_action">>)],
  [id |-> Str(<<"event_4">>), name |-> Str(<<"seeAllMatchesClicked">>), elementId |-> Str(<<"see_all_button">>),
     properties |-> <<
        MockProperty(Str(<<"currentSection">>), Str(<<"string">>), Str(<<"on-screen">>), <<"true">>, Str(<<"for_you">>), <<"0.9">>, Str(<<"Current matches section being viewed">>)),
        MockProperty(Str(<<"visibleMatchesCount">>), Str(<<"number">>), Str(<<"on-screen">>), <<"false">>, <<"5">>, <<"0.8">>, Str(<<"Number of matches visible before clicking see all">>))>>,
     triggers |-> <<"[">> \o Str(<<"User clicks see all matches">>) \o <<"]">>, sources |-> <<"[">> \o Str(<<"Home Screen">>) \o <<"]">>,
     confidence |-> <<"0.85">>, category |-> Str(<<"user_action">>)],
  [id |-> Str(<<"event_5">>), name |-> Str(<<"walletClicked">>), elementId |-> Str(<<"wallet_icon">>),
     properties |-> <<
        MockProperty(Str(<<"source">>), Str(<<"string">>), Str(<<"global">>), <<"true">>, Str(<<"home_screen">>), <<"0.95">>, Str(<<"Screen from where wallet was accessed">>)),
        MockProperty(Str(<<"currentAccountBalance">>), Str(<<"number">>), Str(<<"global">>), <<"true">>, <<"1250.5">>, <<"0.92">>, Str(<<"Total account balance">>)),
        MockProperty(Str(<<"currentCashBonusBalance">>), Str(<<"number">>), Str(<<"global">>), <<"true">>, <<"100.0">>, <<"0.92">>, Str(<<"Cash bonus balance">>)),
        MockProperty(Str(<<"currentDepositBalance">>), Str(<<"number">>), Str(<<"global">>), <<"true">>, <<"500.0">>, <<"0.92">>, Str(<<"Deposited amount balance">>)),
        MockProperty(Str(<<"currentWinningsBalance">>), Str(<<"number">>), Str(<<"global">>), <<"true">>, <<"650.5">>, <<"0.92">>, Str(<<"Winnings balance">>))>>,
     triggers |-> <<"[">> \o Str(<<"User clicks on wallet icon">>) \o <<"]">>, sources |-> <<"[">> \o Str(<<"Any Screen">>) \o <<"]">>,
     confidence |-> <<"0.93">>, category |-> Str(<<"user_action">>)],
  [id |-> Str(<<"event_6">>), name |-> Str(<<"contestJoined">>), elementId |-> Str(<<"join_button">>),
     properties |-> <<
        MockProperty(Str(<<"contestId">>), Str(<<"string">>), Str(<<"on-screen">>), <<"true">>, Str(<<"contest_789">>), <<"0.95">>, Str(<<"Unique contest identifier">>)),
        MockProperty(Str(<<"entryFee">>), Str(<<"number">>), Str(<<"on-screen">>), <<"true">>, <<"49">>, <<"0.95">>, Str(<<"Contest entry fee amount">>)),
        MockProperty(Str(<<"roundId">>), Str(<<"number">>), Str(<<"carried-forward">>), <<"true">>, <<"12345">>, <<"0.9">>, Str(<<"Round ID from previous screen selection">>)),
        MockProperty(Str(<<"contestType">>), Str(<<"string">>), Str(<<"on-screen">>), <<"true">>, Str(<<"head_to_head">>), <<"0.88">>, Str(<<"Type of contest being joined">>)),
        MockProperty(Str(<<"totalSpots">>), Str(<<"number">>), Str(<<"on-screen">>), <<"false">>, <<"2">>, <<"0.85">>, Str(<<"Total spots in the contest">>)),
        MockProperty(Str(<<"spotsFilled">>), Str(<<"number">>), Str(<<"on-screen">>), <<"false">>, <<"1">>, <<"0.85">>, Str(<<"Number of spots already filled">>))>>,
     triggers |-> <<"[">> \o Str(<<"User successfully joins a contest">>) \o <<"]">>, sources |-> <<"[">> \o Str(<<"Contest Selection Screen">>) \o <<"]">>,
     confidence |-> <<"0.91">>, category |-> Str(<<"user_action">>)]>>

mockGlobalProperties == <<
  MockProperty(Str(<<"userId">>), Str(<<"string">>), Str(<<"global">>), <<"true">>, Str(<<"user_123456">>), <<"0.95">>, Str(<<"Unique user identifier">>)),
  MockProperty(Str(<<"platform">>), Str(<<"string">>), Str(<<"global">>), <<"true">>, Str(<<"mobile_android">>), <<"0.95">>, Str(<<"Platform identifier (mobile_android, mobile_ios, web)">>)),
  MockProperty(Str(<<"sessionId">>), Str(<<"string">>), Str(<<"global">>), <<"true">>, Str(<<"session_abc123def">>), <<"0.95">>, Str(<<"Current session identifier">>)),
  MockProperty(Str(<<"appVersion">>), Str(<<"string">>), Str(<<"global">>), <<"true">>, Str(<<"2.1.5">>), <<"0.95">>, Str(<<"Application version">>)),
  MockProperty(Str(<<"timestamp">>), Str(<<"string">>), Str(<<"global">>), <<"true">>, Str(<<"2025-07-18T08:30:00Z">>), <<"0.95">>, Str(<<"Event occurrence timestamp">>))>>

mockCarriedProperties == <<
  [screen |-> <<"homeScreen">>, props |-> <<
     MockProperty(Str(<<"roundId">>), Str(<<"number">>), Str(<<"carried-forward">>), <<"true">>, <<"12345">>, <<"0.9">>, Str(<<"Round ID selected from home screen, carried to contest screen">>)),
     MockProperty(Str(<<"tourId">>), Str(<<"number">>), Str(<<"carried-forward">>), <<"true">>, <<"456">>, <<"0.88">>, Str(<<"Tournament ID carried from match selection">>))>>],
  [screen |-> <<"contestScreen">>, props |-> <<
     MockProperty(Str(<<"contestId">>), Str(<<"string">>), Str(<<"carried-forward">>), <<"true">>, Str(<<"contest_789">>), <<"0.92">>, Str(<<"Contest ID carried to team creation screen">>)),
     MockProperty(Str(<<"entryFee">>), Str(<<"number">>), Str(<<"carried-forward">>), <<"true">>, <<"49">>, <<"0.9">>, Str(<<"Entry fee amount carried to payment screen">>))>>]>>

mockRecommendations ==
  <<"[">> \o Str(<<"Track source/referrer for all events to understand user journey paths">>)
    \o <<",">> \o Str(<<"Include slot_position for list items to analyze user interaction patterns">>)
    \o <<",">> \o Str(<<"Monitor balance changes after each transaction event">>)
    \o <<",">> \o Str(<<"Track contest join success/failure rates by entry fee ranges">>)
    \o <<",">> \o Str(<<"Analyze banner click-through rates by position and content type">>)
    \o <<",">> \o Str(<<"Monitor tab switching patterns to optimize content organization">>)
    \o <<",">> \o Str(<<"Track carried properties consistency across screens">>)
    \o <<",">> \o Str(<<"Ensure proper data types for mathematical operations on monetary values">>)
    \o <<",">> \o Str(<<"Include timestamp precision for time-based analytics">>)
    \o <<",">> \o Str(<<"Monitor user engagement depth by tracking see_all interactions">>) \o <<"]">>

generateMockAnalysis(screenshots) ==
  [mock |-> TRUE, events |-> mockEvents, globalProperties |-> mockGlobalProperties,
   carriedProperties |-> mockCarriedProperties, recommendations |-> mockRecommendations,
   confidence |-> <<"0.88">>, screenshots |-> screenshots]

\* ------------------------------------------------------------------------
\* parseAIResponse (lines 992-1346)
\* ------------------------------------------------------------------------
\* parsed.flatMap(screenData => screenData.events || [])
EventsOrSelf(r) == IF IsArrayVal(r) THEN Elements(r) ELSE <<r>>
EventsOf(screenData) == EventsOrSelf(Or(Get(screenData, "events"), <<"[", "]">>))
FlatMapEvents(blocks) == Flatten([i \in 1..Len(blocks) |-> EventsOf(blocks[i])])

\* the screen blocks whose events are collected, << >> when there are none
BlocksOf(screens) == IF IsArrayVal(screens) THEN Elements(screens) ELSE << >>
ScreenBlocks(parsed) ==
  IF IsArrayVal(parsed) THEN Elements(parsed) ELSE BlocksOf(Get(parsed, "screens"))

\* lines 1120-1131: parsed is not an array
EventsOfObject(screens, events) ==
  IF IsArrayVal(screens) THEN FlatMapEvents(Elements(screens))
  ELSE IF IsArrayVal(events) THEN Elements(events)
  ELSE << >>

\* lines 1114-1131
AllEvents(parsed) ==
  IF IsArrayVal(parsed) THEN FlatMapEvents(Elements(parsed))
  ELSE EventsOfObject(Get(parsed, "screens"), Get(parsed, "events"))

\* the property record built by the four map callbacks
ConvertProperty(prop, source, confidence) ==
  [name |-> Get(prop, "name"), type |-> Get(prop, "type"), source |-> source,
   required |-> Get(prop, "required"), example |-> Get(prop, "example"),
   confidence |-> confidence, description |-> Get(prop, "description")]

\* lines 1157-1166
ElementTextProperty(element) ==
  IF Falsy(element) THEN << >>
  ELSE <<[name |-> Str(<<"elementText">>), type |-> Str(<<"string">>),
          source |-> Str(<<"on-screen">>), required |-> <<"true">>, example |-> element,
          confidence |-> <<"0.9">>,
          description |-> Str(<<"Text or description of the UI element">>)]>>

\* lines 1168-1178
EventTypeProperty(eventType) ==
  IF Falsy(eventType) THEN << >>
  ELSE <<[name |-> Str(<<"eventType">>), type |-> Str(<<"string">>),
          source |-> Str(<<"on-screen">>), required |-> <<"true">>, example |-> eventType,
          confidence |-> <<"0.9">>,
          description |-> Str(<<"Type of user interaction">>)]>>

\* lines 1180-1192
ExtraProperty(entry) ==
  [name |-> Str(entry.key), type |-> Str(<<TypeOf(entry.val)>>),
   source |-> Str(<<"on-screen">>), required |-> <<"false">>, example |-> entry.val,
   confidence |-> <<"0.8">>,
   description |-> Str(<<"Additional property: ">> \o entry.key)]

ExtraProperties(entries) == [i \in 1..Len(entries) |-> ExtraProperty(entries[i])]

AdditionalProperties(additional) ==
  IF Falsy(additional) THEN << >> ELSE ExtraProperties(ObjectEntries(additional))

\* lines 1153-1193: the properties of an event in the legacy format
LegacyProperties(event) ==
  ElementTextProperty(Get(event, "element"))
    \o EventTypeProperty(Get(event, "eventType"))
    \o AdditionalProperties(Get(event, "additionalProperties"))

\* lines 1142-1152
ResponseProperty(prop) == ConvertProperty(prop, Get(prop, "source"), <<"0.9">>)
ResponseProperties(props) == [i \in 1..Len(props) |-> ResponseProperty(props[i])]

\* line 1142: event.properties ? event.properties.map(...) : [the legacy ones]
EventProperties(event, properties) ==
  IF IsArrayVal(properties) THEN ResponseProperties(Elements(properties))
  ELSE LegacyProperties(event)

\* the id taken from the name of the event
EventIdFromName(event, index) ==
  Str(<<"event_">> \o ToText(Or(Or(Get(event, "name"), Get(event, "eventName")),
                                Str(<<"event_", ToString(index)>>))))

\* line 1137: id: event_${index + 1}, index counted from 0
EventId(event, index) == Str(<<"event_", ToString(index)>>)

\* lines 1136-1205: the callback of allEvents.map, index counted from 1
ConvertEvent(event, index) ==
  [id |-> EventId(event, index),
   name |-> Or(Or(Get(event, "name"), Get(event, "eventName")),
               Str(<<"event_", ToString(index)>>)),
   elementId |-> Or(Get(event, "selector"), Str(<<"element_", ToString(index)>>)),
   properties |-> EventProperties(event, Get(event, "properties")),
   triggers |-> Or(Get(event, "triggers"),
                   <<"[">> \o Str(<<"User performs ">>
                                    \o ToText(Or(Get(event, "eventType"), Str(<<"interaction">>)))
                                    \o <<" on ">>
                                    \o ToText(Or(Get(event, "element"), Str(<<"element">>))))
                           \o <<"]">>),
   sources |-> <<"[">> \o Or(Get(event, "screen"), Str(<<"Mobile App Screen">>)) \o <<"]">>,
   confidence |-> <<"0.85">>,
   category |-> Str(<<"user_action">>)]

ConvertEvents(events) == [i \in 1..Len(events) |-> ConvertEvent(events[i], i)]

\* lines 1208-1252
DefaultGlobalProperties(now) == <<
  [name |-> Str(<<"userId">>), type |-> Str(<<"string">>), source |-> Str(<<"global">>),
   required |-> <<"true">>, example |-> Str(<<"user_123456">>), confidence |-> <<"0.95">>,
   description |-> Str(<<"Unique user identifier">>)],
  [name |-> Str(<<"sessionId">>), type |-> Str(<<"string">>), source |-> Str(<<"global">>),
   required |-> <<"true">>, example |-> Str(<<"session_abc123">>), confidence |-> <<"0.95">>,
   description |-> Str(<<"Current session identifier">>)],
  [name |-> Str(<<"timestamp">>), type |-> Str(<<"string">>), source |-> Str(<<"global">>),
   required |-> <<"true">>, example |-> Str(<<"ISO time ", ToString(now)>>), confidence |-> <<"0.95">>,
   description |-> Str(<<"Event occurrence timestamp">>)] >>

GlobalProperty(prop) == ConvertProperty(prop, Str(<<"global">>), <<"0.95">>)
GlobalList(props) == [i \in 1..Len(props) |-> GlobalProperty(props[i])]
GlobalsOf(globals, now) ==
  IF IsArrayVal(globals) THEN GlobalList(Elements(globals)) ELSE DefaultGlobalProperties(now)
GlobalProperties(parsed, now) == GlobalsOf(Get(parsed, "globalProperties"), now)

\* lines 1255-1271
CarriedProperty(prop) == ConvertProperty(prop, Str(<<"carried-forward">>), <<"0.9">>)
CarriedList(props) == [i \in 1..Len(props) |-> CarriedProperty(props[i])]
CarriedScreen(entry) == [screen |-> entry.key, props |-> CarriedList(Elements(entry.val))]
IsListEntry(entry) == IsArrayVal(entry.val)
CarriedScreens(lists) == [i \in 1..Len(lists) |-> CarriedScreen(lists[i])]
CarriedOf(carried) ==
  IF ~Falsy(carried) /\ TypeOf(carried) = "object"
  THEN CarriedScreens(SelectSeq(ObjectEntries(carried), IsListEntry))
  ELSE << >>
CarriedProperties(parsed) == CarriedOf(Get(parsed, "carriedProperties"))

\* lines 1316-1320
DefaultRecommendations ==
  <<"[">> \o Str(<<"Track all UI element interactions for comprehensive user behavior analysis">>)
    \o <<",">> \o Str(<<"Monitor event types to understand interaction patterns">>)
    \o <<",">> \o Str(<<"Analyze additional properties to identify optimization opportunities">>)
    \o <<"]">>

\* a property read on null throws a TypeError; so does .map on a value
\* that is not an array (the trackingSpec callback, line 1282)
HasNull(vs) == \E i \in 1..Len(vs) : vs[i] = JsNull

PropertiesThrow(properties) ==
  \/ IsArrayVal(properties) /\ HasNull(Elements(properties))
  \/ ~Falsy(properties) /\ ~IsArrayVal(properties)

EventsThrow(events) ==
  \/ HasNull(events)
  \/ \E i \in 1..Len(events) : PropertiesThrow(Get(events[i], "properties"))

GlobalsThrow(globals) == IsArrayVal(globals) /\ HasNull(Elements(globals))

ListsThrow(lists) ==
  \E i \in 1..Len(lists) : IsArrayVal(lists[i].val) /\ HasNull(Elements(lists[i].val))

CarriedThrows(carried) ==
  ~Falsy(carried) /\ TypeOf(carried) = "object" /\ ListsThrow(ObjectEntries(carried))

ConversionThrows(parsed) ==
  \/ parsed = JsNull
  \/ HasNull(ScreenBlocks(parsed))
  \/ EventsThrow(AllEvents(parsed))
  \/ GlobalsThrow(Get(parsed, "globalProperties"))
  \/ CarriedThrows(Get(parsed, "carriedProperties"))

\* the result of the try block once JSON.parse has succeeded
ConvertParsed(parsed, screenshots, now) ==
  [mock |-> FALSE,
   events |-> ConvertEvents(AllEvents(parsed)),
   globalProperties |-> GlobalProperties(parsed, now),
   carriedProperties |-> CarriedProperties(parsed),
   recommendations |-> Or(Get(parsed, "recommendations"), DefaultRecommendations),
   confidence |-> Or(Get(parsed, "confidence"), <<"0.85">>),
   screenshots |-> screenshots]

\* lines 1334-1345: the catch block returns the mock
ConvertOrMock(parsed, screenshots, now) ==
  IF ConversionThrows(parsed) THEN generateMockAnalysis(screenshots)
  ELSE ConvertParsed(parsed, screenshots, now)

\* lines 1111-1345
ParseJson(jsonContent, screenshots, now) ==
  IF ~JsonValid(jsonContent) THEN generateMockAnalysis(screenshots)
  ELSE ConvertOrMock(JsonParse(jsonContent), screenshots, now)

\* the text given to the final JSON.parse (line 1111)
JsonContent(analysisText) == RepairedJson(ExtractJson(CleanText(analysisText)))

\* the catch block of line 1334 is taken
JsonFails(jsonContent) == ~JsonValid(jsonContent) \/ ConversionThrows(JsonParse(jsonContent))
ParseFails(analysisText) == JsonFails(JsonContent(analysisText))

parseAIResponse(analysisText, screenshots, now) ==
  ParseJson(JsonContent(analysisText), screenshots, now)

\* ------------------------------------------------------------------------
\* Response texts: what a backend answers, built from a bounded description
\* ------------------------------------------------------------------------
MaxScreens == 2
MaxEventsPerScreen == 2

Key(k) == <<QUOTE, k, QUOTE, ":">>
Word(w) == <<QUOTE, w, QUOTE>>

RECURSIVE JoinWith(_, _)
JoinWith(parts, sep) ==
  IF parts = << >> THEN << >>
  ELSE IF Len(parts) = 1 THEN parts[1]
  ELSE parts[1] \o sep \o JoinWith(Tail(parts), sep)

\* the events a backend may describe, in both formats of AIEventResponse
EventTexts == <<
  <<"{">> \o Key("name") \o Word("x") \o <<",">> \o Key("properties") \o <<"[", "]", "}">>,
  <<"{">> \o Key("name") \o Word("y") \o <<",">> \o Key("properties") \o <<"[", "{">>
     \o Key("name") \o Word("p") \o <<",">> \o Key("type") \o Word("number") \o <<",">>
     \o Key("required") \o <<"true", ",">> \o Key("example") \o <<"7", "}", "]", "}">>,
  <<"{">> \o Key("name") \o Word("y") \o <<"}">>,
  <<"{">> \o Key("eventName") \o Word("x") \o <<",">> \o Key("element") \o Word("btn") \o <<",">>
     \o Key("eventType") \o Word("click") \o <<",">> \o Key("additionalProperties") \o <<"{">>
     \o Key("k") \o <<"1", "}", "}">>,
  <<"{">> \o Key("name") \o Word("x") \o <<",">> \o Key("properties") \o <<"[", "{">>
     \o Key("name") \o Word("p") \o <<"}", ",", "{">> \o Key("name") \o Word("p") \o <<"}", "]", "}">>,
  <<"{">> \o Key("eventName") \o Word("y") \o <<",">> \o Key("element") \o Word("btn") \o <<",">>
     \o Key("additionalProperties") \o <<"{">> \o Key("elementText") \o Word("z") \o <<"}", "}">> >>

\* the leading prose a backend may put before the fenced JSON
ProseTexts == <<
  <<"Here", SP, "you", SP, "go", ":">>,
  <<"Use", SP, "{", "x", "}", SP, "as", SP, "key", ":">>,
  <<"See", SP, "[", "1", "]", ":">> >>

Shapes == {"array", "screens", "events"}

\* a response: its shape, the number of screen blocks, the events per block,
\* the first event (the others follow cyclically), the optional top-level fields
Docs ==
  {d \in [shape : Shapes, screens : 0..MaxScreens, perScreen : 0..MaxEventsPerScreen,
          first : 1..Len(EventTexts), extras : BOOLEAN] :
     /\ d.shape = "events" => d.screens = 1
     /\ d.shape # "events" => ~d.extras
     /\ (d.screens = 0 \/ d.perScreen = 0) => d.first = 1}

\* the index in EventTexts of event j of block b
EventIndex(d, b, j) == ((d.first - 1 + (b - 1) * d.perScreen + (j - 1)) % Len(EventTexts)) + 1

BlockEvents(d, b) == [j \in 1..d.perScreen |-> EventTexts[EventIndex(d, b, j)]]

EventList(d, b) == <<"[">> \o JoinWith(BlockEvents(d, b), <<",">>) \o <<"]">>

ScreenBlock(d, b) ==
  <<"{">> \o Key("screen") \o <<QUOTE, "S", ToString(b), QUOTE, ",">> \o Key("events")
    \o EventList(d, b) \o <<"}">>

ExtraFields ==
  <<",">> \o Key("globalProperties") \o <<"[", "{">> \o Key("name") \o Word("userId") \o <<",">>
    \o Key("type") \o Word("string") \o <<",">> \o Key("required") \o <<"true", "}", "]", ",">>
    \o Key("carriedProperties") \o <<"{">> \o Key("home") \o <<"[", "{">> \o Key("name")
    \o Word("roundId") \o <<"}", "]", "}", ",">>
    \o Key("recommendations") \o <<"[">> \o Word("r") \o <<"]", ",">>
    \o Key("confidence") \o <<"0", ".", "7">>

\* JSON.stringify of the response
Render(d) ==
  LET blocks == JoinWith([b \in 1..d.screens |-> ScreenBlock(d, b)], <<",">>) IN
  IF d.shape = "array" THEN <<"[">> \o blocks \o <<"]">>
  ELSE IF d.shape = "screens" THEN <<"{">> \o Key("screens") \o <<"[">> \o blocks \o <<"]", "}">>
  ELSE <<"{">> \o Key("events") \o EventList(d, 1)
         \o (IF d.extras THEN ExtraFields ELSE << >>) \o <<"}">>

\* the same JSON with a blank after every ':' and ',' outside strings
Spaced(t) ==
  LET inString == InString(t)
      Out(k) == IF t[k] \in {":", ","} /\ ~inString[k] THEN <<t[k], SP>> ELSE <<t[k]>>
  IN Rewrite(t, Out)

\* the same JSON with a comma before every '}' (objects) or ']' (arrays)
\* that closes a non-empty container
TrailingCommas(t, closers) ==
  LET inString == InString(t)
      Out(k) == IF /\ t[k] \in closers /\ ~inString[k]
                   /\ t[k - 1 - WsRunBack(t, k - 1)] \notin {"{", "["}
                THEN <<",", SP, t[k]>> ELSE <<t[k]>>
  IN Rewrite(t, Out)

CommaStyles == {{"}"}, {"]"}, {"}", "]"}}

ResponseText(d, blanks) == IF blanks THEN Spaced(Render(d)) ELSE Render(d)

\* the response inside a markdown fence after leading prose
Wrapped(prose, json) == prose \o <<NL, FENCEJSON, NL>> \o json \o <<NL, FENCE>>

\* ------------------------------------------------------------------------
\* Numbers: IEEE 754 doubles of magnitude between 1/64 and 4, and zero. The double x is the record
\* [d, e] with x = d/100 + e * 2^-56 / 100 : d hundredths and an error e,
\* counted in hundredths of 2^-56, so that sums are exact in d and e and the
\* rounding to 53 bits is computed from residues
\* ------------------------------------------------------------------------
RECURSIVE Pow2Mod(_, _)
Pow2Mod(k, m) ==
  IF k <= 28 THEN (2 ^ k) % m ELSE (Pow2Mod(28, m) * Pow2Mod(k - 28, m)) % m

\* the spacing of the doubles around d/100, in hundredths of 2^-56
Ulp(d, e) ==
  IF d > 200 \/ (d = 200 /\ e >= 0) THEN 3200
  ELSE IF d > 100 \/ (d = 100 /\ e >= 0) THEN 1600
  ELSE IF d > 50 \/ (d = 50 /\ e >= 0) THEN 800
  ELSE IF d > 25 \/ (d = 25 /\ e >= 0) THEN 400
  ELSE IF d >= 13 THEN 200
  ELSE IF d >= 7 THEN 100
  ELSE IF d >= 4 THEN 50
  ELSE 25

\* the residue of d/100 + e modulo 2m, m a spacing
Residue(d, e, m) == (d * Pow2Mod(56, 2 * m) + e + 2 * m * 1000) % (2 * m)

\* round to nearest, ties to even, given the residue r modulo twice the spacing m
RoundBy(d, e, m, r) ==
  IF 2 * (r % m) < m \/ (2 * (r % m) = m /\ r < m)
  THEN [d |-> d, e |-> e - (r % m)]
  ELSE [d |-> d, e |-> e + m - (r % m)]

Round(d, e) == RoundBy(d, e, Ulp(d, e), Residue(d, e, Ulp(d, e)))

\* the double a literal with two decimals denotes
Literal(d) == Round(d, 0)

\* a + b, a * n for an integer n, a < b, Math.min(a, b)
FAdd(a, b) == Round(a.d + b.d, a.e + b.e)
FTimes(a, n) == Round(a.d * n, a.e * n)
FLess(a, b) == a.d < b.d \/ (a.d = b.d /\ a.e < b.e)
FMin(a, b) == IF FLess(b, a) THEN b ELSE a

\* round d/100 + e + t, t a part of sign t below one unit of e that only breaks ties
RoundNear(d, e, m, r, t) ==
  IF 2 * (r % m) < m \/ (2 * (r % m) = m /\ (t < 0 \/ (t = 0 /\ r < m)))
  THEN [d |-> d, e |-> e - (r % m)]
  ELSE [d |-> d, e |-> e + m - (r % m)]

Sign(n) == IF n < 0 THEN -1 ELSE IF n > 0 THEN 1 ELSE 0
Negated(a) == [d |-> -a.d, e |-> -a.e]
Magnitude(a) == IF a.d < 0 THEN Negated(a) ELSE a

\* a * b for a, b >= 0 whose product has whole hundredths
ProductOf(d, e, t) == RoundNear(d, e, Ulp(d, e), Residue(d, e, Ulp(d, e)), t)
FMulPositive(a, b) ==
  ProductOf((a.d * b.d) \div 100, (a.d * b.e + a.e * b.d) \div 100, Sign(a.e * b.e))

\* a * b
FMul(a, b) ==
  IF Sign(a.d) * Sign(b.d) < 0
  THEN Negated(FMulPositive(Magnitude(a), Magnitude(b)))
  ELSE FMulPositive(Magnitude(a), Magnitude(b))

\* ------------------------------------------------------------------------
\* State
\* ------------------------------------------------------------------------
VARIABLES
  doc,              \* the response a backend produced (an element of Docs)
  prose,            \* index in ProseTexts of the text leading the fenced response
  spaced,           \* the response is written with blanks
  commaStyle,       \* the closers that get a trailing comma
  clock,            \* the time new Date() reads
  ran,              \* the applications of parseAIResponse made so far
  parsed,           \* their results
  aiConfig,         \* AIAnalysisService.aiConfig
  analyzePc,        \* where the call of analyzeScreenshots stands
  screenshots,      \* the number of screenshots it was given
  backendCalls,     \* the providers it sent a request to
  prompt,           \* the text of the latest request, section by section
  outcome,          \* what the backend answered
  analysisResult,   \* the result the promise of analyzeScreenshots resolved with
  raised,           \* the promise of analyzeScreenshots was rejected
  initialized,      \* RAGService.initialized
  vectorStore,      \* RAGService.vectorStore: the documents of the store, or NoStore
  feedbackHistory,  \* RAGService.feedbackHistory
  analysisPatterns, \* RAGService.analysisPatterns, in insertion order
  domainKnowledge,  \* RAGService.domainKnowledge, in insertion order
  localStorage,     \* the item rag_historical_data of localStorage
  calls,            \* the calls of initializeKnowledgeBase and learnFromFeedback in flight
  arg,              \* a function of RAGService applied on its own, and its argument
  ret,              \* what it returned
  activeTab,        \* AppContent: the tab shown
  userFlow,         \* AppContent: the user flow, or NoFlow for null
  isAnalyzing,      \* AppContent: the flag handed to the analysis panel
  screenshotPreview, \* AppContent: the screenshot captured, 0 for null
  showPreviewModal, \* AppContent: the preview modal is asked for
  analyses,         \* the calls of handleAnalyzeScreenshot waiting for analyzeScreenshots
  editingEvent,     \* AIAnalysisPanel: the id of the event whose name is edited, or NoEdit
  tempEventName,    \* AIAnalysisPanel: the name typed
  editingProperty,  \* AIAnalysisPanel: the event id and index of the property edited, or NoEdit
  tempProperty      \* AIAnalysisPanel: the copy of the property that is edited, or NoEdit

parserVars == <<doc, prose, spaced, commaStyle, ran, parsed>>
analyzeVars == <<aiConfig, analyzePc, screenshots, backendCalls, prompt, outcome, analysisResult,
                 raised>>
ragVars == <<initialized, vectorStore, feedbackHistory, analysisPatterns, domainKnowledge,
             localStorage, calls>>
functionVars == <<arg, ret>>
shellVars == <<activeTab, userFlow, isAnalyzing, screenshotPreview, showPreviewModal, analyses>>
editorVars == <<editingEvent, tempEventName, editingProperty, tempProperty>>
appVars == <<shellVars, editorVars>>
vars == <<doc, prose, spaced, commaStyle, clock, ran, parsed,
          aiConfig, analyzePc, screenshots, backendCalls, prompt, outcome, analysisResult, raised,
          initialized, vectorStore, feedbackHistory, analysisPatterns, domainKnowledge,
          localStorage, calls, arg, ret,
          activeTab, userFlow, isAnalyzing, screenshotPreview, showPreviewModal, analyses,
          editingEvent, tempEventName, editingProperty, tempProperty>>

\* no function is applied on its own
NoArgument == [fn |-> "none", value |-> << >>]
NoReturn == [done |-> FALSE, value |-> << >>]
FunctionsQuiet == arg = NoArgument /\ ret = NoReturn

\* useState(null), useState(''): nothing is edited in the analysis panel
NoEdit == [editing |-> FALSE]
EditorQuiet ==
  /\ editingEvent = NoEdit
  /\ tempEventName = ""
  /\ editingProperty = NoEdit
  /\ tempProperty = NoEdit

\* the state AppContent starts in
NoFlow == [present |-> FALSE, id |-> 0, aiAnalysis |-> << >>]
ShellQuiet ==
  /\ activeTab = "drawing"
  /\ userFlow = NoFlow
  /\ isAnalyzing = FALSE
  /\ screenshotPreview = 0
  /\ showPreviewModal = FALSE
  /\ analyses = << >>
AppQuiet == ShellQuiet /\ EditorQuiet

\* the value of a result that has not been computed
NoResult ==
  [mock |-> FALSE, events |-> << >>, globalProperties |-> << >>, carriedProperties |-> << >>,
   recommendations |-> << >>, confidence |-> << >>, screenshots |-> 0]

\* line 570: aiConfig is null until setAIConfig or the constructor sets it
NoConfig == [selectedProvider |-> "null", openai |-> "", gemini |-> ""]

\* no call of analyzeScreenshots was made
AnalyzeQuiet ==
  /\ aiConfig = NoConfig
  /\ analyzePc = "idle"
  /\ screenshots = 0
  /\ backendCalls = << >>
  /\ prompt = << >>
  /\ outcome = [kind |-> "none", text |-> << >>]
  /\ analysisResult = NoResult
  /\ raised = FALSE

\* the fields of a RAGService as declared: no vector store, no documents
NoStore == [exists |-> FALSE, documents |-> << >>]

\* localStorage.getItem('rag_historical_data') returns null
NoSnapshot == [present |-> FALSE, feedback |-> << >>, patterns |-> << >>, timestamp |-> 0]

RagQuiet ==
  /\ initialized = FALSE
  /\ vectorStore = NoStore
  /\ feedbackHistory = << >>
  /\ analysisPatterns = << >>
  /\ domainKnowledge = << >>
  /\ localStorage = NoSnapshot
  /\ calls = << >>


ParseKinds == {"bare", "wrapped", "trailing"}

\* ------------------------------------------------------------------------
\* The parser applied to a response, to the response wrapped in prose and a
\* fence, and to the response written with trailing commas
\* ------------------------------------------------------------------------
BareText == ResponseText(doc, spaced)

ParserInit ==
  /\ AppQuiet
  /\ doc \in Docs
  /\ prose = 1
  /\ spaced \in BOOLEAN
  /\ commaStyle = {}
  /\ clock = 0
  /\ ran = {}
  /\ parsed = [k \in ParseKinds |-> NoResult]
  /\ AnalyzeQuiet
  /\ RagQuiet
  /\ FunctionsQuiet

\* the response as it is
ParseBare ==
  /\ ran = {}
  /\ ran' = {"bare"}
  /\ parsed' = [parsed EXCEPT !["bare"] = parseAIResponse(BareText, 1, clock)]
  /\ UNCHANGED <<doc, prose, spaced, commaStyle, clock, analyzeVars, ragVars, functionVars, appVars>>

\* the response after some prose and inside a fence
ParseWrapped ==
  /\ ran = {"bare"}
  /\ \E p \in 1..Len(ProseTexts) :
       /\ prose' = p
       /\ parsed' = [parsed EXCEPT !["wrapped"] =
                       parseAIResponse(Wrapped(ProseTexts[p], ResponseText(doc, spaced)), 1, clock)]
  /\ ran' = ran \cup {"wrapped"}
  /\ UNCHANGED <<doc, spaced, commaStyle, clock, analyzeVars, ragVars, functionVars, appVars>>

\* the response written with trailing commas
ParseTrailing ==
  /\ ran = {"bare"}
  /\ \E style \in CommaStyles :
       /\ commaStyle' = style
       /\ parsed' = [parsed EXCEPT !["trailing"] =
                       parseAIResponse(TrailingCommas(ResponseText(doc, spaced), style), 1, clock)]
  /\ ran' = ran \cup {"trailing"}
  /\ UNCHANGED <<doc, prose, spaced, clock, analyzeVars, ragVars, functionVars, appVars>>

ParserNext == ParseBare \/ ParseWrapped \/ ParseTrailing

SpecParser == ParserInit /\ [][ParserNext]_vars

\* ------------------------------------------------------------------------
\* Properties of parseAIResponse
\* ------------------------------------------------------------------------
SameAnalysis(a, b) ==
  /\ a.events = b.events
  /\ a.globalProperties = b.globalProperties
  /\ a.carriedProperties = b.carriedProperties
  /\ a.recommendations = b.recommendations
  /\ a.confidence = b.confidence

\* C3: the response after leading prose and inside a fence gives the same
\* events, global properties, carried properties, recommendations and
\* confidence as the response alone
C3_ProseAndFenceIgnored ==
  "wrapped" \in ran => SameAnalysis(parsed["wrapped"], parsed["bare"])

\* the events of all the blocks of a response, in order, as the callback of
\* allEvents.map converts them
ExpectedEvents(d) ==
  LET events == Flatten([b \in 1..d.screens |-> BlockEvents(d, b)]) IN
  [i \in 1..Len(events) |-> ConvertEvent(Canonical(events[i]), i)]

\* C4: the events parsed from an array of {screen, events} blocks are the
\* concatenation, in order, of the events of every block
C4_ArrayBlocksAllKept ==
  ("bare" \in ran /\ doc.shape = "array")
    => /\ Len(parsed["bare"].events) = Len(ExpectedEvents(doc))
       /\ \A i \in 1..Len(ExpectedEvents(doc)) :
            parsed["bare"].events[i].name = ExpectedEvents(doc)[i].name

\* C5: the events of one parsed result have pairwise distinct ids
C5_EventIdsDistinct ==
  \A k \in ran : \A i, j \in 1..Len(parsed[k].events) :
    i # j => parsed[k].events[i].id # parsed[k].events[j].id

\* a response was parsed into two events of the same name
C5_TwoEventsSameName ==
  \E k \in ran :
    /\ ~parsed[k].mock
    /\ Len(parsed[k].events) >= 2
    /\ parsed[k].events[1].name = parsed[k].events[2].name

\* C6: within each event of a parsed result no two properties have the same
\* name
C6_PropertyNamesUnique ==
  \A k \in ran : \A e \in 1..Len(parsed[k].events) :
    LET properties == parsed[k].events[e].properties IN
    \A i, j \in 1..Len(properties) : i # j => properties[i].name # properties[j].name

\* C7: a response written with trailing commas is parsed, not replaced by the
\* mock, into the events, with the same field values, of the response without
\* them
C7_TrailingCommasRepaired ==
  "trailing" \in ran
    => /\ ~parsed["trailing"].mock
       /\ parsed["trailing"].events = parsed["bare"].events

\* ------------------------------------------------------------------------
\* AIAnalysisService.analyzeScreenshots
\* ------------------------------------------------------------------------
MaxScreenshots == 2

\* the configurations setAIConfig may be given (AIConfigContext.tsx, AIConfig)
AIConfigs ==
  [selectedProvider : {"openai", "gemini"}, openai : {"", "sk-1"}, gemini : {"", "AIza"}]

\* lines 583-604
getApiConfig ==
  IF aiConfig.selectedProvider = "openai"
  THEN [provider |-> "openai", apiKey |-> aiConfig.openai]
  ELSE IF aiConfig.selectedProvider = "gemini"
  THEN [provider |-> "gemini", apiKey |-> aiConfig.gemini]
  ELSE [provider |-> "openai", apiKey |-> ""]

\* what a backend may answer: the request fails (fetch or generateContent
\* rejects), the status is not ok (line 756), the body has no text (lines
\* 762-765 and 848 throw), or the body carries a text
FailureKinds == {"exception", "httpError", "badBody"}

\* the texts a backend may answer with
BackendTexts == <<
  Render([shape |-> "events", screens |-> 1, perScreen |-> 1, first |-> 2, extras |-> TRUE]),
  Wrapped(ProseTexts[1],
          Render([shape |-> "screens", screens |-> 2, perScreen |-> 1, first |-> 1,
                  extras |-> FALSE])),
  TrailingCommas(Render([shape |-> "events", screens |-> 1, perScreen |-> 1, first |-> 3,
                         extras |-> FALSE]), {"]"}),
  <<"Sorry", SP, "no", SP, "events">>,
  <<"{">> \o Key("events") \o <<"[", "null", "]", "}">>,
  <<"{">> \o Key("events") \o <<"[", "{">> \o Key("name") \o Word("x"),
  <<"7">>,
  << >>,
  <<"{">> \o Key("events") \o <<"[", "]", ",">> \o Key("confidence") \o <<"7", "}">>,
  TrailingCommas(Render([shape |-> "events", screens |-> 1, perScreen |-> 1, first |-> 1,
                         extras |-> TRUE]), {"]"}) >>

Outcomes ==
  [kind : FailureKinds, text : {<< >>}]
    \cup {[kind |-> "text", text |-> BackendTexts[i]] : i \in 1..Len(BackendTexts)}

\* lines 662-665: the catch block of analyzeScreenshots
AnalyzeCatchRethrows(shots) == [raised |-> TRUE, result |-> NoResult]
AnalyzeCatchEmpty(shots) ==
  [raised |-> FALSE,
   result |-> [NoResult EXCEPT !.confidence = <<"0">>, !.screenshots = shots]]
AnalyzeCatch(shots) == [raised |-> FALSE, result |-> generateMockAnalysis(shots)]

\* lines 576-578
setAIConfig ==
  /\ \E config \in AIConfigs : aiConfig' = config
  /\ UNCHANGED <<analyzePc, screenshots, backendCalls, prompt, outcome, analysisResult, raised>>
  /\ UNCHANGED <<clock, parserVars, ragVars, functionVars, appVars>>

\* lines 865-990: the fixed text of buildAnalysisPrompt
buildAnalysisPrompt == <<"CORE RESPONSIBILITIES">>

\* lines 672-724: the system message and the text of the user message
analyzeWithOpenAIPrompt(shots, customPrompt) ==
  buildAnalysisPrompt \o <<<<"Analyze these", shots>>, "ANALYSIS REQUIREMENTS">>
    \o (IF customPrompt # "" THEN <<"ADDITIONAL USER REQUIREMENTS", customPrompt>> ELSE << >>)

\* lines 779-841: textPrompt
analyzeWithGeminiPrompt(shots, customPrompt) ==
  buildAnalysisPrompt \o <<<<"Analyze these", shots>>, "ANALYSIS REQUIREMENTS">>
    \o (IF customPrompt # "" THEN <<"SPECIFIC REQUIREMENTS", customPrompt>> ELSE << >>)

\* the prompts a caller may add; none is the empty string
CustomPrompts == {"", "only taps"}

\* lines 609-656: analyzeScreenshots up to the request to the backend, or to
\* its return when no backend is usable
AnalyzeStart ==
  /\ analyzePc = "idle"
  /\ \E shots \in 1..MaxScreenshots, customPrompt \in CustomPrompts :
       LET apiConfig == getApiConfig IN
       /\ screenshots' = shots
       /\ IF apiConfig.apiKey # ""
          THEN /\ analyzePc' = "awaiting"
               /\ backendCalls' = Append(backendCalls, apiConfig.provider)
               /\ prompt' = IF apiConfig.provider = "openai"
                            THEN analyzeWithOpenAIPrompt(shots, customPrompt)
                            ELSE analyzeWithGeminiPrompt(shots, customPrompt)
               /\ UNCHANGED <<analysisResult, raised>>
          ELSE /\ analyzePc' = "returned"
               /\ analysisResult' = generateMockAnalysis(shots)
               /\ UNCHANGED <<backendCalls, prompt, raised>>
  /\ UNCHANGED <<aiConfig, outcome>>
  /\ UNCHANGED <<clock, parserVars, ragVars, functionVars, appVars>>

\* a backend that fails is followed by the other provider when its key is set
OtherProvider(provider) == IF provider = "openai" THEN "gemini" ELSE "openai"
BackendRespondsFailover ==
  /\ analyzePc = "awaiting"
  /\ \E o \in Outcomes :
       /\ outcome' = o
       /\ IF o.kind = "text"
          THEN /\ analysisResult' = parseAIResponse(o.text, screenshots, clock)
               /\ raised' = FALSE
               /\ analyzePc' = "returned"
               /\ UNCHANGED backendCalls
          ELSE IF Len(backendCalls) = 1 /\ aiConfig[OtherProvider(backendCalls[1])] # ""
          THEN /\ backendCalls' = Append(backendCalls, OtherProvider(backendCalls[1]))
               /\ UNCHANGED <<analyzePc, analysisResult, raised>>
          ELSE /\ analysisResult' = AnalyzeCatch(screenshots).result
               /\ raised' = AnalyzeCatch(screenshots).raised
               /\ analyzePc' = "returned"
               /\ UNCHANGED backendCalls
  /\ UNCHANGED <<aiConfig, screenshots, prompt>>
  /\ UNCHANGED <<clock, parserVars, ragVars, functionVars, appVars>>
\* lines 750-772 and 846-859, then 636-665: the backend answers; the text is
\* parsed, a failure is rethrown up to the catch block of analyzeScreenshots
BackendResponds ==
  /\ analyzePc = "awaiting"
  /\ \E o \in Outcomes :
       /\ outcome' = o
       /\ IF o.kind = "text"
          THEN /\ analysisResult' = parseAIResponse(o.text, screenshots, clock)
               /\ raised' = FALSE
          ELSE /\ analysisResult' = AnalyzeCatch(screenshots).result
               /\ raised' = AnalyzeCatch(screenshots).raised
  /\ analyzePc' = "returned"
  /\ UNCHANGED <<aiConfig, screenshots, backendCalls, prompt>>
  /\ UNCHANGED <<clock, parserVars, ragVars, functionVars, appVars>>

\* the caller is done with the result
AnalyzeDone ==
  /\ analyzePc = "returned"
  /\ analyzePc' = "idle"
  /\ screenshots' = 0
  /\ backendCalls' = << >>
  /\ prompt' = << >>
  /\ outcome' = [kind |-> "none", text |-> << >>]
  /\ analysisResult' = NoResult
  /\ raised' = FALSE
  /\ UNCHANGED aiConfig
  /\ UNCHANGED <<clock, parserVars, ragVars, functionVars, appVars>>

\* the state of the parser specification that the other specifications keep
ParserQuiet ==
  /\ doc = [shape |-> "events", screens |-> 1, perScreen |-> 0, first |-> 1, extras |-> FALSE]
  /\ prose = 1
  /\ spaced = FALSE
  /\ commaStyle = {}
  /\ ran = {}
  /\ parsed = [k \in ParseKinds |-> NoResult]

AnalyzeInit == clock = 0 /\ ParserQuiet /\ AnalyzeQuiet /\ RagQuiet /\ FunctionsQuiet /\ AppQuiet

AnalyzeNext == setAIConfig \/ AnalyzeStart \/ BackendResponds \/ AnalyzeDone

SpecAnalyze == AnalyzeInit /\ [][AnalyzeNext]_vars

\* C1: analyzeScreenshots returns an analysis result whatever the
\* configuration and whatever the backend answers; its promise is never
\* rejected
C1_AnalyzeTotal ==
  /\ ~raised
  /\ analyzePc = "returned"
       => /\ analysisResult # NoResult
          /\ analysisResult.screenshots = screenshots
          /\ analysisResult.confidence # << >>

\* the backend failed, or answered a text that does not parse, and
\* analyzeScreenshots returned
C1_ReturnedAfterFailure ==
  /\ analyzePc = "returned"
  /\ backendCalls # << >>
  /\ \/ outcome.kind \in FailureKinds
     \/ outcome.kind = "text" /\ ParseFails(outcome.text)

\* no backend was usable, the backend call failed, or the response did not
\* parse
Failed ==
  \/ backendCalls = << >>
  \/ outcome.kind \in FailureKinds
  \/ outcome.kind = "text" /\ ParseFails(outcome.text)

\* C2: every failure makes analyzeScreenshots return the same mock result, of
\* 6 events and confidence 0.88
C2_FailureGivesMock ==
  (analyzePc = "returned" /\ Failed)
    => /\ Len(analysisResult.events) = 6
       /\ analysisResult.confidence = <<"0.88">>
       /\ analysisResult.events = mockEvents
       /\ analysisResult.globalProperties = mockGlobalProperties

\* analyzeScreenshots returned after an HTTP error status
C2_ReturnedAfterHttpError ==
  /\ analyzePc = "returned"
  /\ outcome.kind = "httpError"
  /\ Len(analysisResult.events) = 6

CodeConfidences ==
  {<<"0.75">>, <<"0.8">>, <<"0.85">>, <<"0.87">>, <<"0.88">>, <<"0.89">>, <<"0.9">>, <<"0.91">>,
   <<"0.92">>, <<"0.93">>, <<"0.95">>}
InUnit(v) ==
  \/ v \in CodeConfidences
  \/ IsNumberVal(v) /\ (v[1] = "0" \/ v \in {<<"1">>, <<"1", ".", "0">>})

PropertiesInUnit(properties) ==
  \A j \in 1..Len(properties) : InUnit(properties[j].confidence)

\* C19: in the result analyzeScreenshots returns, the confidence of the
\* result, of every event and of every property is a number in [0, 1],
\* whatever the backend answered
C19_ConfidencesInUnit ==
  (analyzePc = "returned" /\ ~raised) =>
    /\ InUnit(analysisResult.confidence)
    /\ \A k \in 1..Len(analysisResult.events) :
         /\ InUnit(analysisResult.events[k].confidence)
         /\ PropertiesInUnit(analysisResult.events[k].properties)
    /\ PropertiesInUnit(analysisResult.globalProperties)

\* ------------------------------------------------------------------------
\* RAGService: the Map of JavaScript, a sequence of values in insertion order,
\* each carrying its key in the field id
\* ------------------------------------------------------------------------
MapHas(map, id) == \E k \in 1..Len(map) : map[k].id = id
MapIndex(map, id) == CHOOSE k \in 1..Len(map) : map[k].id = id
MapGet(map, id) == map[MapIndex(map, id)]

\* a set that appends even when the key is there
MapPush(map, value) == Append(map, value)
\* Map.set: a key that is there keeps its place and takes the new value
MapSet(map, value) ==
  IF MapHas(map, value.id)
  THEN [map EXCEPT ![MapIndex(map, value.id)] = value]
  ELSE Append(map, value)

Includes(array, x) == \E k \in 1..Len(array) : array[k] = x
RemoveAt(array, c) == SubSeq(array, 1, c - 1) \o SubSeq(array, c + 1, Len(array))

\* a Date, and the ISO string JSON.stringify writes and JSON.parse leaves
Date(t) == [date |-> TRUE, at |-> t]
ToJSONDate(date) == [date |-> FALSE, at |-> date.at]

\* ------------------------------------------------------------------------
\* RAGService: the feedback submitted
\* ------------------------------------------------------------------------
MaxCalls == 2
MaxInFlight == 2

Property(name, type) == [name |-> name, type |-> type]
Event(name, category, properties) ==
  [name |-> name, category |-> category, properties |-> properties]

\* eventNameChanges is the sequence of its entries <<oldName, newName>> in key order
Corrections == <<
  [analysisId |-> "a1",
   correctedEvents |-> <<Event("tap", "user_action", <<Property("p", "string")>>)>>,
   userComments |-> "ok", confidence |-> Literal(90), timestamp |-> Date(0),
   eventNameChanges |-> << <<"clk", "tap">> >>],
  [analysisId |-> "a2",
   correctedEvents |-> <<Event("tap", "user_action", <<Property("p", "number"), Property("q", "string")>>),
                         Event("view", "screen_view", <<Property("p", "string")>>),
                         Event("swipe", "user_action", <<Property("q", "number"), Property("q", "string")>>),
                         Event("tap", "user_action", << >>)>>,
   userComments |-> "good", confidence |-> Literal(85), timestamp |-> Date(0),
   eventNameChanges |-> << <<"clk", "tap">>, <<"press", "tap">> >>] >>

UserFeedback(i, now) == [Corrections[i] EXCEPT !.timestamp = Date(now)]

\* ------------------------------------------------------------------------
\* RAGService.updatePatternsFromFeedback
\* ------------------------------------------------------------------------
PatternId(event) == <<event.category, "_pattern">>

NewPattern(patternId, event, now) ==
  [id |-> patternId, screenType |-> event.category, commonEvents |-> << >>,
   successfulProperties |-> << >>, confidenceScore |-> Literal(50),
   usageCount |-> 0, lastUsed |-> Date(now)]

\* a pattern made anew whether or not the map holds one
PatternAlwaysNew(patterns, patternId, event, now) == NewPattern(patternId, event, now)
PatternFor(patterns, patternId, event, now) ==
  IF MapHas(patterns, patternId) THEN MapGet(patterns, patternId)
  ELSE NewPattern(patternId, event, now)

\* the name pushed whether or not the list holds it
PushEventAlways(commonEvents, name) == Append(commonEvents, name)
PushEvent(commonEvents, name) ==
  IF Includes(commonEvents, name) THEN commonEvents ELSE Append(commonEvents, name)

HasProperty(successfulProperties, name) ==
  \E k \in 1..Len(successfulProperties) : successfulProperties[k].name = name

RECURSIVE PushProperties(_, _, _)
PushProperties(successfulProperties, properties, i) ==
  IF i > Len(properties) THEN successfulProperties
  ELSE PushProperties(IF HasProperty(successfulProperties, properties[i].name)
                      THEN successfulProperties
                      ELSE Append(successfulProperties, properties[i]),
                      properties, i + 1)

\* the score raised without the cap
BoostedUncapped(confidenceScore) == FAdd(confidenceScore, Literal(10))
\* Math.min(1.0, pattern.confidenceScore + 0.1)
Boosted(confidenceScore) == FMin(Literal(100), FAdd(confidenceScore, Literal(10)))

UpdatePattern(pattern, event, now) ==
  [pattern EXCEPT !.commonEvents = PushEvent(@, event.name),
                  !.successfulProperties = PushProperties(@, event.properties, 1),
                  !.usageCount = @ + 1,
                  !.confidenceScore = Boosted(@),
                  !.lastUsed = Date(now)]

UpdatedPattern(patterns, event, now) ==
  UpdatePattern(PatternFor(patterns, PatternId(event), event, now), event, now)

\* event.properties.forEach throws on an event without a properties list
HasList(event) == "properties" \in DOMAIN event

\* the callback up to the throw of line 445: the name is pushed to the
\* commonEvents of the pattern the map holds; a pattern made anew is dropped
Interrupted(patterns, event) ==
  IF MapHas(patterns, PatternId(event))
  THEN MapSet(patterns, [MapGet(patterns, PatternId(event)) EXCEPT
                           !.commonEvents = PushEvent(@, event.name)])
  ELSE patterns

RECURSIVE UpdatePatterns(_, _, _, _)
UpdatePatterns(patterns, correctedEvents, i, now) ==
  IF i > Len(correctedEvents) THEN patterns
  ELSE IF ~HasList(correctedEvents[i]) THEN Interrupted(patterns, correctedEvents[i])
  ELSE UpdatePatterns(MapSet(patterns, UpdatedPattern(patterns, correctedEvents[i], now)),
                      correctedEvents, i + 1, now)

updatePatternsFromFeedback(patterns, feedback, now) ==
  UpdatePatterns(patterns, feedback.correctedEvents, 1, now)

\* the promise of updatePatternsFromFeedback is rejected
Throws(feedback) ==
  \E k \in 1..Len(feedback.correctedEvents) : ~HasList(feedback.correctedEvents[k])

\* ------------------------------------------------------------------------
\* RAGService.updateDomainKnowledge, seedDomainKnowledge
\* ------------------------------------------------------------------------
NamingKnowledge(oldName, newName) ==
  [id |-> <<"naming_", newName>>, category |-> "event_naming",
   title |-> <<"Event Naming: ", newName>>,
   description |-> <<"Successful event name correction from ", oldName, " to ", newName>>,
   examples |-> <<[old |-> oldName, new |-> newName]>>,
   applicableScreens |-> <<"all">>, confidence |-> Literal(90)]

RECURSIVE UpdateKnowledge(_, _, _)
UpdateKnowledge(knowledge, eventNameChanges, i) ==
  IF i > Len(eventNameChanges) THEN knowledge
  ELSE UpdateKnowledge(MapSet(knowledge, NamingKnowledge(eventNameChanges[i][1], eventNameChanges[i][2])),
                       eventNameChanges, i + 1)

updateDomainKnowledge(knowledge, feedback) ==
  UpdateKnowledge(knowledge, feedback.eventNameChanges, 1)

\* a seeded item; of its examples the event names are kept
Seeded(id, category, title, description, examples, applicableScreens, confidence) ==
  [id |-> <<id>>, category |-> category, title |-> <<title>>, description |-> <<description>>,
   examples |-> examples, applicableScreens |-> applicableScreens, confidence |-> confidence]

dreamllKnowledge == <<
  Seeded("feed_banner_pattern", "event_naming", "FeedBannerClicked Event Pattern",
         "When the user clicks on the feedbanner",
         <<[eventName |-> "FeedBannerClicked"]>>, <<"home", "match_center">>, Literal(95)),
  Seeded("round_selection_pattern", "event_naming", "RoundSelected Event Pattern",
         "When the user clicks on a round (match card)",
         <<[eventName |-> "RoundSelected"]>>, <<"match_selection", "rounds">>, Literal(95)),
  Seeded("matches_interaction_pattern", "event_naming", "matchesinteracted Event Pattern",
         "When the user clicks on any of the upcoming matches tab (eg: for you, today etc)",
         <<[eventName |-> "matchesinteracted"]>>, <<"matches", "home">>, Literal(90)),
  Seeded("see_all_matches_pattern", "event_naming", "seeallmatches Event Pattern",
         "When the user clicks on see all matches on the home page",
         <<[eventName |-> "seeallmatches"]>>, <<"home">>, Literal(90)),
  Seeded("wallet_clicked_pattern", "event_naming", "walletclicked Event Pattern",
         "When the user clicks on the wallet icon",
         <<[eventName |-> "walletclicked"]>>, <<"all">>, Literal(95)),
  Seeded("how_to_play_pattern", "event_naming", "howtoplaytapped Event Pattern",
         "When the user clicks on the how to play button",
         <<[eventName |-> "howtoplaytapped"]>>, <<"help", "onboarding">>, Literal(90)),
  Seeded("dream11_naming_conventions", "event_naming", "Dream11 Event Naming Conventions",
         "Standard event naming patterns for Dream11 analytics",
         <<"Use descriptive camelCase or lowercase names",
           "Include action verbs (clicked, selected, tapped, interacted)",
           "Be specific about user interactions",
           "Include context when relevant (source, section, etc.)">>, <<"all">>, Literal(85)),
  Seeded("property_type_conventions", "property_types", "Dream11 Property Type Conventions",
         "Standard property types and naming for Dream11 analytics",
         <<[pattern |-> "IDs"], [pattern |-> "Counts"], [pattern |-> "Balances"],
           [pattern |-> "Flags"], [pattern |-> "Sources/Sections"], [pattern |-> "URLs"]>>,
         <<"all">>, Literal(90)) >>

RECURSIVE SetAll(_, _, _)
SetAll(map, values, i) ==
  IF i > Len(values) THEN map ELSE SetAll(MapSet(map, values[i]), values, i + 1)

seedDomainKnowledge(knowledge) == SetAll(knowledge, dreamllKnowledge, 1)

\* ------------------------------------------------------------------------
\* RAGService.indexFeedback, persistLearnings, loadHistoricalData
\* ------------------------------------------------------------------------
InMemoryVectorStore == [exists |-> TRUE, documents |-> << >>]

EventNames(correctedEvents) == [k \in 1..Len(correctedEvents) |-> correctedEvents[k].name]

Document(feedback) ==
  [id |-> feedback.analysisId,
   content |-> [analysis |-> feedback.analysisId, events |-> EventNames(feedback.correctedEvents),
                comments |-> feedback.userComments, confidence |-> feedback.confidence],
   metadata |-> [type |-> "feedback", confidence |-> feedback.confidence,
                 timestamp |-> feedback.timestamp]]

indexFeedback(store, feedback) ==
  IF ~store.exists THEN store
  ELSE [store EXCEPT !.documents = MapSet(@, Document(feedback))]

StoredFeedback(history) ==
  [k \in 1..Len(history) |-> [history[k] EXCEPT !.timestamp = ToJSONDate(@)]]
StoredPatterns(patterns) ==
  [k \in 1..Len(patterns) |-> [patterns[k] EXCEPT !.lastUsed = ToJSONDate(@)]]

\* what JSON.stringify(data) puts under rag_historical_data
StoredWithoutPatterns(history, patterns, now) ==
  [present |-> TRUE, feedback |-> StoredFeedback(history),
   patterns |-> << >>, timestamp |-> now]
Stored(history, patterns, now) ==
  [present |-> TRUE, feedback |-> StoredFeedback(history),
   patterns |-> StoredPatterns(patterns), timestamp |-> now]

LoadedFeedback(stored, history) == IF stored.present THEN stored.feedback ELSE history
LoadedPatterns(stored, patterns) ==
  IF stored.present THEN SetAll(patterns, stored.patterns, 1) ELSE patterns

\* what an earlier run of the page has left under rag_historical_data after
\* learning from the feedback of the numbers given, one call after the other
RECURSIVE LearnedPatterns(_, _, _)
LearnedPatterns(patterns, numbers, i) ==
  IF i > Len(numbers) THEN patterns
  ELSE LearnedPatterns(updatePatternsFromFeedback(patterns, UserFeedback(numbers[i], 0), 0),
                       numbers, i + 1)

LeftBehind(numbers) ==
  Stored([k \in 1..Len(numbers) |-> UserFeedback(numbers[k], 0)],
         LearnedPatterns(<< >>, numbers, 1), 0)

EarlierRuns == {NoSnapshot, LeftBehind(<<2>>)}

\* ------------------------------------------------------------------------
\* RAGService: the service and its calls in flight. A call stands at the
\* await it has reached; between two awaits it runs without interruption
\* ------------------------------------------------------------------------
Call(pc, feedback) == [pc |-> pc, feedback |-> feedback]

\* new RAGService(): the constructor calls initializeKnowledgeBase, which runs
\* loadHistoricalData and stops at its await
RagInit ==
  /\ AppQuiet
  /\ clock = 0
  /\ ParserQuiet
  /\ AnalyzeQuiet
  /\ FunctionsQuiet
  /\ localStorage \in EarlierRuns
  /\ initialized = FALSE
  /\ vectorStore = NoStore
  /\ feedbackHistory = LoadedFeedback(localStorage, << >>)
  /\ analysisPatterns = LoadedPatterns(localStorage, << >>)
  /\ domainKnowledge = << >>
  /\ calls = <<Call("initStore", << >>)>>

\* learnFromFeedback(feedback) up to the await of initializeKnowledgeBase
Invoked(feedback) ==
  /\ clock < MaxCalls
  /\ Len(calls) < MaxInFlight
  /\ clock' = clock + 1
  /\ IF initialized
     THEN /\ calls' = Append(calls, Call("learn", <<feedback>>))
          /\ UNCHANGED <<feedbackHistory, analysisPatterns>>
     ELSE /\ calls' = Append(calls, Call("initStore", <<feedback>>))
          /\ feedbackHistory' = LoadedFeedback(localStorage, feedbackHistory)
          /\ analysisPatterns' = LoadedPatterns(localStorage, analysisPatterns)
  /\ UNCHANGED <<initialized, vectorStore, domainKnowledge, localStorage, parserVars, analyzeVars, functionVars,
                 appVars>>

\* initializeKnowledgeBase after loadHistoricalData, up to the await of seedDomainKnowledge
InitStore(c) ==
  /\ calls[c].pc = "initStore"
  /\ vectorStore' = InMemoryVectorStore
  /\ domainKnowledge' = seedDomainKnowledge(domainKnowledge)
  /\ calls' = [calls EXCEPT ![c].pc = "initDone"]
  /\ UNCHANGED <<clock, initialized, feedbackHistory, analysisPatterns, localStorage,
                 parserVars, analyzeVars, functionVars, appVars>>

\* initializeKnowledgeBase to its end
InitDone(c) ==
  /\ calls[c].pc = "initDone"
  /\ initialized' = TRUE
  /\ calls' = IF calls[c].feedback = << >> THEN RemoveAt(calls, c)
              ELSE [calls EXCEPT ![c].pc = "learn"]
  /\ UNCHANGED <<clock, vectorStore, feedbackHistory, analysisPatterns, domainKnowledge,
                 localStorage, parserVars, analyzeVars, functionVars, appVars>>

\* the patterns read from the snapshot, not from the memory, and written back
StoreFeedbackFromSnapshot(c) ==
  /\ calls[c].pc = "learn"
  /\ feedbackHistory' = Append(feedbackHistory, calls[c].feedback[1])
  /\ analysisPatterns' = updatePatternsFromFeedback(LoadedPatterns(localStorage, << >>),
                                                    calls[c].feedback[1], clock)
  /\ calls' = [calls EXCEPT ![c].pc = IF Throws(calls[c].feedback[1]) THEN "caught"
                                     ELSE "knowledge"]
  /\ UNCHANGED <<clock, initialized, vectorStore, domainKnowledge, localStorage,
                 parserVars, analyzeVars, functionVars, appVars>>
\* the patterns put back as they were when updatePatternsFromFeedback throws
StoreFeedbackUndoing(c) ==
  /\ calls[c].pc = "learn"
  /\ feedbackHistory' = Append(feedbackHistory, calls[c].feedback[1])
  /\ analysisPatterns' = IF Throws(calls[c].feedback[1]) THEN analysisPatterns
                         ELSE updatePatternsFromFeedback(analysisPatterns, calls[c].feedback[1], clock)
  /\ calls' = [calls EXCEPT ![c].pc = IF Throws(calls[c].feedback[1]) THEN "caught"
                                     ELSE "knowledge"]
  /\ UNCHANGED <<clock, initialized, vectorStore, domainKnowledge, localStorage,
                 parserVars, analyzeVars, functionVars, appVars>>
\* feedbackHistory.push(feedback) and updatePatternsFromFeedback; when that
\* throws, the catch of learnFromFeedback is next
StoreFeedback(c) ==
  /\ calls[c].pc = "learn"
  /\ feedbackHistory' = Append(feedbackHistory, calls[c].feedback[1])
  /\ analysisPatterns' = updatePatternsFromFeedback(analysisPatterns, calls[c].feedback[1], clock)
  /\ calls' = [calls EXCEPT ![c].pc = IF Throws(calls[c].feedback[1]) THEN "caught"
                                     ELSE "knowledge"]
  /\ UNCHANGED <<clock, initialized, vectorStore, domainKnowledge, localStorage,
                 parserVars, analyzeVars, functionVars, appVars>>

LearnKnowledge(c) ==
  /\ calls[c].pc = "knowledge"
  /\ domainKnowledge' = updateDomainKnowledge(domainKnowledge, calls[c].feedback[1])
  /\ calls' = [calls EXCEPT ![c].pc = "index"]
  /\ UNCHANGED <<clock, initialized, vectorStore, feedbackHistory, analysisPatterns,
                 localStorage, parserVars, analyzeVars, functionVars, appVars>>

IndexFeedback(c) ==
  /\ calls[c].pc = "index"
  /\ vectorStore' = indexFeedback(vectorStore, calls[c].feedback[1])
  /\ calls' = [calls EXCEPT ![c].pc = "persist"]
  /\ UNCHANGED <<clock, initialized, feedbackHistory, analysisPatterns, domainKnowledge,
                 localStorage, parserVars, analyzeVars, functionVars, appVars>>

\* a write that fails takes the feedback of the call back out of the memory
PersistLearningsRollsBack(c) ==
  /\ calls[c].pc = "persist"
  /\ \E thrown \in BOOLEAN :
       /\ localStorage' = IF thrown THEN localStorage
                          ELSE Stored(feedbackHistory, analysisPatterns, clock)
       /\ feedbackHistory' = IF thrown THEN SubSeq(feedbackHistory, 1, Len(feedbackHistory) - 1)
                             ELSE feedbackHistory
       /\ calls' = [calls EXCEPT ![c].pc = IF thrown THEN "failed" ELSE "persisted"]
  /\ UNCHANGED <<clock, initialized, vectorStore, analysisPatterns,
                 domainKnowledge, parserVars, analyzeVars, functionVars, appVars>>
\* persistLearnings, up to the await of it in learnFromFeedback;
\* localStorage.setItem may throw, which is caught
PersistLearnings(c) ==
  /\ calls[c].pc = "persist"
  /\ \E thrown \in BOOLEAN :
       /\ localStorage' = IF thrown THEN localStorage
                          ELSE Stored(feedbackHistory, analysisPatterns, clock)
       /\ calls' = [calls EXCEPT ![c].pc = IF thrown THEN "failed" ELSE "persisted"]
  /\ UNCHANGED <<clock, initialized, vectorStore, feedbackHistory, analysisPatterns,
                 domainKnowledge, parserVars, analyzeVars, functionVars, appVars>>

\* learnFromFeedback after the await of persistLearnings, to its end
LearnDone(c) ==
  /\ calls[c].pc \in {"persisted", "failed", "caught"}
  /\ calls' = RemoveAt(calls, c)
  /\ UNCHANGED <<clock, initialized, vectorStore, feedbackHistory, analysisPatterns,
                 domainKnowledge, localStorage, parserVars, analyzeVars, functionVars, appVars>>

learnFromFeedback(i) == Invoked(UserFeedback(i, clock))

RagNext ==
  \/ \E i \in 1..Len(Corrections) : learnFromFeedback(i)
  \/ \E c \in 1..Len(calls) : InitStore(c)
  \/ \E c \in 1..Len(calls) : InitDone(c)
  \/ \E c \in 1..Len(calls) : StoreFeedback(c)
  \/ \E c \in 1..Len(calls) : LearnKnowledge(c)
  \/ \E c \in 1..Len(calls) : IndexFeedback(c)
  \/ \E c \in 1..Len(calls) : PersistLearnings(c)
  \/ \E c \in 1..Len(calls) : LearnDone(c)

SpecRag == RagInit /\ [][RagNext]_vars

\* ------------------------------------------------------------------------
\* RAGService: properties
\* ------------------------------------------------------------------------
Categories == {"user_action", "screen_view"}

CountEvents(feedback, category) ==
  Cardinality({k \in 1..Len(feedback.correctedEvents) :
                 feedback.correctedEvents[k].category = category})

RECURSIVE CountHistory(_, _, _)
CountHistory(history, category, i) ==
  IF i > Len(history) THEN 0
  ELSE CountEvents(history[i], category) + CountHistory(history, category, i + 1)

\* the events of the pattern's category in the feedback learned from
Applications(pattern) == CountHistory(feedbackHistory, pattern.screenType, 1)

Usage(patterns, category) ==
  IF MapHas(patterns, <<category, "_pattern">>)
  THEN MapGet(patterns, <<category, "_pattern">>).usageCount
  ELSE 0

Least(a, b) == IF a < b THEN a ELSE b

\* C8 as stated: a pattern created with the score 0.5 and updated by N events
\* of its category has the score Math.min(1.0, 0.5 + 0.1 * N)
C8_ScoreIsClosedForm ==
  \A k \in 1..Len(analysisPatterns) :
    analysisPatterns[k].confidenceScore =
      FMin(Literal(100), FAdd(Literal(50), FTimes(Literal(10), Applications(analysisPatterns[k]))))

ScoreNearClosedForm ==
  \A k \in 1..Len(analysisPatterns) :
    /\ analysisPatterns[k].confidenceScore.d = Least(100, 50 + 10 * Applications(analysisPatterns[k]))
    /\ analysisPatterns[k].confidenceScore.e \in -800..800
    /\ ~FLess(Literal(100), analysisPatterns[k].confidenceScore)
    /\ Applications(analysisPatterns[k]) >= 6 => analysisPatterns[k].confidenceScore = Literal(100)

ScoreNeverFalls ==
  \A k \in 1..Len(analysisPatterns) :
    /\ Len(analysisPatterns') >= k
    /\ analysisPatterns'[k].id = analysisPatterns[k].id
    /\ ~FLess(analysisPatterns'[k].confidenceScore, analysisPatterns[k].confidenceScore)

\* C8 amended: the score of a pattern updated by N events of its category is
\* the double reached from 0.5 by N additions of 0.1, each rounded and capped
\* at 1.0: it lies within 2^-53 of min(1.0, 0.5 + 0.1 * N) without having to
\* equal it, is never above 1.0, is 1.0 from the sixth event on, and no step
\* lowers it
C8_ScoreWithinRounding == []ScoreNearClosedForm /\ [][ScoreNeverFalls]_vars

\* C8 witness: a pattern that feedback learned in this run has brought to six
\* events or more, held at 1.0 by the cap
C8_HeldAtCap ==
  /\ \E k \in 1..Len(analysisPatterns) :
       /\ Applications(analysisPatterns[k]) >= 6
       /\ analysisPatterns[k].confidenceScore = [d |-> 100, e |-> 0]
  /\ Len(feedbackHistory) >= 1
  /\ feedbackHistory[Len(feedbackHistory)].timestamp.date

\* C9: the step of learnFromFeedback that stores the feedback raises the
\* usageCount of every category by the number of the feedback's events of that
\* category; no step lowers a usageCount or removes a pattern
C9_UsageCountsEvents ==
  [][/\ \A c \in 1..Len(calls) :
          StoreFeedback(c) =>
            \A category \in Categories :
              Usage(analysisPatterns', category) =
                Usage(analysisPatterns, category) + CountEvents(calls[c].feedback[1], category)
     /\ \A category \in Categories :
          Usage(analysisPatterns', category) >= Usage(analysisPatterns, category)
     /\ \A k \in 1..Len(analysisPatterns) :
          MapHas(analysisPatterns', analysisPatterns[k].id)]_vars

\* C9 witness: the same feedback of one event learned twice, usageCount 2
C9_SameFeedbackTwice ==
  /\ Len(feedbackHistory) = 2
  /\ feedbackHistory[1].analysisId = "a1"
  /\ feedbackHistory[2].analysisId = "a1"
  /\ feedbackHistory[1].timestamp.date
  /\ Usage(analysisPatterns, "user_action") = 2

Records(knowledge, oldName, newName) ==
  /\ Cardinality({k \in 1..Len(knowledge) : knowledge[k].id = <<"naming_", newName>>}) = 1
  /\ MapGet(knowledge, <<"naming_", newName>>).category = "event_naming"
  /\ MapGet(knowledge, <<"naming_", newName>>).confidence = [d |-> 90, e |-> 160]
  /\ MapGet(knowledge, <<"naming_", newName>>).examples = <<[old |-> oldName, new |-> newName]>>

\* the last old name the changes map to newName
LastOld(eventNameChanges, newName) ==
  eventNameChanges[CHOOSE j \in 1..Len(eventNameChanges) :
                      /\ eventNameChanges[j][2] = newName
                      /\ \A l \in (j + 1)..Len(eventNameChanges) :
                           eventNameChanges[l][2] # newName][1]

\* C10 as stated: after updateDomainKnowledge there is, for each pair
\* (oldName, newName) of eventNameChanges, an item naming_<newName> of category
\* event_naming and confidence 0.9 that records the mapping from oldName
C10_EveryChangeRecorded ==
  [][\A c \in 1..Len(calls) :
       LearnKnowledge(c) =>
         \A j \in 1..Len(calls[c].feedback[1].eventNameChanges) :
           Records(domainKnowledge', calls[c].feedback[1].eventNameChanges[j][1],
                   calls[c].feedback[1].eventNameChanges[j][2])]_vars

\* C10 amended: after updateDomainKnowledge there is, for each newName of
\* eventNameChanges, exactly one item naming_<newName>, of category event_naming
\* and confidence 0.9, and it records the mapping from the last oldName that
\* the changes map to newName; an item that was there is overwritten
C10_LastChangeRecorded ==
  [][\A c \in 1..Len(calls) :
       LearnKnowledge(c) =>
         \A j \in 1..Len(calls[c].feedback[1].eventNameChanges) :
           Records(domainKnowledge',
                   LastOld(calls[c].feedback[1].eventNameChanges,
                           calls[c].feedback[1].eventNameChanges[j][2]),
                   calls[c].feedback[1].eventNameChanges[j][2])]_vars

\* C10 witness: two old names mapped to tap after tap had been recorded for
\* clk; the one item names the last of them
C10_OverwrittenByLast ==
  /\ Len(feedbackHistory) = 2
  /\ feedbackHistory[1].analysisId = "a1"
  /\ feedbackHistory[2].analysisId = "a2"
  /\ feedbackHistory[1].timestamp.date
  /\ calls = << >>
  /\ Records(domainKnowledge, "press", "tap")

\* ------------------------------------------------------------------------
\* RAGService: functions applied on their own to arguments drawn from small sets
\* ------------------------------------------------------------------------
Zero == [d |-> 0, e |-> 0]

\* RAGService.calculateConfidenceBoosts: boosts is the object of its entries
\* [id, boost] in key order
PatternBoost(pattern) == FMin(Literal(20), FMul(pattern.confidenceScore, Literal(20)))

\* the boost of an event name kept as it was first set
RECURSIVE BoostEventsKeepFirst(_, _, _, _)
BoostEventsKeepFirst(boosts, commonEvents, j, boost) ==
  IF j > Len(commonEvents) THEN boosts
  ELSE BoostEventsKeepFirst(IF MapHas(boosts, commonEvents[j]) THEN boosts
                            ELSE MapSet(boosts, [id |-> commonEvents[j], boost |-> boost]),
                            commonEvents, j + 1, boost)

RECURSIVE BoostEvents(_, _, _, _)
BoostEvents(boosts, commonEvents, j, boost) ==
  IF j > Len(commonEvents) THEN boosts
  ELSE BoostEvents(MapSet(boosts, [id |-> commonEvents[j], boost |-> boost]),
                   commonEvents, j + 1, boost)

RECURSIVE BoostPatterns(_, _, _)
BoostPatterns(boosts, patterns, i) ==
  IF i > Len(patterns) THEN boosts
  ELSE BoostPatterns(BoostEvents(boosts, patterns[i].commonEvents, 1, PatternBoost(patterns[i])),
                     patterns, i + 1)

calculateConfidenceBoosts(patterns) == BoostPatterns(<< >>, patterns, 1)

\* patterns with any score: negative, zero, within [0, 1], the score
\* 0.7999999999999999 three events give, above 1
AnyScores ==
  {Negated(Literal(100)), Negated(Literal(50)), Zero, Literal(50), [d |-> 80, e |-> -480],
   Literal(100), Literal(150), Literal(200)}

PatternWith(category, commonEvents, confidenceScore) ==
  [id |-> <<category, "_pattern">>, screenType |-> category, commonEvents |-> commonEvents,
   successfulProperties |-> << >>, confidenceScore |-> confidenceScore,
   usageCount |-> Len(commonEvents), lastUsed |-> Date(0)]

AnyPatterns ==
  {PatternWith("user_action", commonEvents, score) :
     commonEvents \in {<<"tap">>, <<"tap", "swipe">>}, score \in AnyScores}
  \cup {PatternWith("screen_view", <<"view", "tap">>, score) : score \in AnyScores}

BoostArguments ==
  {<< >>} \cup {<<p>> : p \in AnyPatterns}
  \cup {<<p, q>> : p \in {x \in AnyPatterns : x.screenType = "user_action"},
                   q \in {x \in AnyPatterns : x.screenType = "screen_view"}}

CalculateConfidenceBoosts ==
  /\ arg.fn = "calculateConfidenceBoosts"
  /\ ~ret.done
  /\ ret' = [done |-> TRUE, value |-> calculateConfidenceBoosts(arg.value)]
  /\ UNCHANGED <<clock, arg, parserVars, analyzeVars, ragVars, appVars>>

\* C11: every value of the map calculateConfidenceBoosts returns lies in
\* [0, 0.2], whatever the scores of the patterns
C11_BoostsWithinCap ==
  (ret.done /\ arg.fn = "calculateConfidenceBoosts") =>
    \A k \in 1..Len(ret.value) :
      /\ ~FLess(ret.value[k].boost, Zero)
      /\ ~FLess(Literal(20), ret.value[k].boost)

\* ------------------------------------------------------------------------
\* RAGService.assessAnalysisQuality. A name is the sequence of its words and
\* includes a pattern when one of its words, in lower case, is the pattern
\* ------------------------------------------------------------------------
dreamllEventPatterns ==
  {"clicked", "selected", "tapped", "interacted", "viewed", "joined", "created"}
structuredTypes == {"int", "long", "varchar", "string", "boolean", "decimal"}
dreamllProperties == {"source", "roundId", "tourId", "contestJoinCount", "bannerId", "section"}
contextualProperties == {"source", "section", "screen"}

ToLowerCase(word) ==
  CASE word = "Clicked" -> "clicked"
    [] word = "Screen" -> "screen"
    [] word = "INT" -> "int"
    [] word = "Object" -> "object"
    [] OTHER -> word

hasDreamllNaming(analysis) ==
  \E i \in 1..Len(analysis.events) :
    \E k \in 1..Len(analysis.events[i].name) :
      ToLowerCase(analysis.events[i].name[k]) \in dreamllEventPatterns

hasTypedProperties(analysis) ==
  \E i \in 1..Len(analysis.events) :
    \E j \in 1..Len(analysis.events[i].properties) :
      /\ analysis.events[i].properties[j].type # ""
      /\ ToLowerCase(analysis.events[i].properties[j].type) \in structuredTypes

hasDreamllProperties(analysis) ==
  \E i \in 1..Len(analysis.events) :
    \E j \in 1..Len(analysis.events[i].properties) :
      analysis.events[i].properties[j].name \in dreamllProperties

hasContextualProps(analysis) ==
  \E i \in 1..Len(analysis.events) :
    \E j \in 1..Len(analysis.events[i].properties) :
      ToLowerCase(analysis.events[i].properties[j].name) \in contextualProperties

hasGlobalProperty(analysis, name) ==
  \E j \in 1..Len(analysis.globalProperties) : analysis.globalProperties[j].name = name

RECURSIVE TotalProperties(_, _)
TotalProperties(events, i) ==
  IF i > Len(events) THEN 0
  ELSE Len(events[i].properties) + TotalProperties(events, i + 1)

\* avgPropertiesPerEvent >= n; the average of no event is NaN, which no
\* comparison holds of
avgPropertiesAtLeast(events, n) ==
  Len(events) > 0 /\ TotalProperties(events, 1) >= n * Len(events)

RECURSIVE SumConfidence(_, _, _)
SumConfidence(sum, events, i) ==
  IF i > Len(events) THEN sum
  ELSE SumConfidence(FAdd(sum, events[i].confidence), events, i + 1)

\* sum / n for n a power of two, which is exact
Halved(sum, n) == [d |-> sum.d \div n, e |-> sum.e \div n]

avgConfidenceAtLeast(events, bound) ==
  Len(events) > 0 /\ ~FLess(Halved(SumConfidence(Zero, events, 1), Len(events)), bound)

Bonus(score, condition, bonus) == IF condition THEN FAdd(score, bonus) ELSE score

PropertyBonus(score, events) ==
  IF avgPropertiesAtLeast(events, 3) THEN FAdd(score, Literal(10))
  ELSE IF avgPropertiesAtLeast(events, 1) THEN FAdd(score, Literal(5))
  ELSE score

\* the two tiers of the confidence bonus exchanged
ConfidenceBonusExchanged(score, events) ==
  IF avgConfidenceAtLeast(events, Literal(80)) THEN FAdd(score, Literal(5))
  ELSE IF avgConfidenceAtLeast(events, Literal(60)) THEN FAdd(score, Literal(10))
  ELSE score
ConfidenceBonus(score, events) ==
  IF avgConfidenceAtLeast(events, Literal(80)) THEN FAdd(score, Literal(10))
  ELSE IF avgConfidenceAtLeast(events, Literal(60)) THEN FAdd(score, Literal(5))
  ELSE score

QualityScore(analysis) ==
  Bonus(
    Bonus(
      ConfidenceBonus(
        PropertyBonus(
          Bonus(
            Bonus(
              Bonus(Literal(50), hasDreamllNaming(analysis), Literal(15)),
              hasTypedProperties(analysis), Literal(15)),
            hasDreamllProperties(analysis), Literal(10)),
          analysis.events),
        analysis.events),
      hasGlobalProperty(analysis, "user_id") /\ hasGlobalProperty(analysis, "timestamp"),
      Literal(5)),
    hasContextualProps(analysis), Literal(10))

Pushed(list, condition, text) == IF condition THEN Append(list, text) ELSE list

PropertyCoverage(events) ==
  IF avgPropertiesAtLeast(events, 3) THEN "good"
  ELSE IF avgPropertiesAtLeast(events, 1) THEN "moderate" ELSE "none"
ConfidenceLevel(events) ==
  IF avgConfidenceAtLeast(events, Literal(80)) THEN "high"
  ELSE IF avgConfidenceAtLeast(events, Literal(60)) THEN "moderate" ELSE "low"

\* the texts without their leading marks and without the average they print
QualityFeedback(analysis) ==
  Pushed(Pushed(Pushed(Pushed(Pushed(Pushed(Pushed(Pushed(Pushed(<< >>,
    hasDreamllNaming(analysis), "Uses Dream11-style descriptive event naming"),
    hasTypedProperties(analysis), "Includes proper property types (int, varchar, boolean, etc.)"),
    hasDreamllProperties(analysis), "Includes Dream11-specific properties (source, roundId, etc.)"),
    PropertyCoverage(analysis.events) = "good", "Good property coverage"),
    PropertyCoverage(analysis.events) = "moderate", "Moderate property coverage"),
    ConfidenceLevel(analysis.events) = "high", "High confidence analysis"),
    ConfidenceLevel(analysis.events) = "moderate", "Moderate confidence analysis"),
    hasGlobalProperty(analysis, "user_id") /\ hasGlobalProperty(analysis, "timestamp"),
    "Essential global properties included"),
    hasContextualProps(analysis), "Includes contextual properties (source, section)")

QualityImprovements(analysis) ==
  Pushed(Pushed(Pushed(Pushed(Pushed(Pushed(Pushed(Pushed(<< >>,
    ~hasDreamllNaming(analysis),
    "Use descriptive action words (clicked, selected, tapped) in event names"),
    ~hasTypedProperties(analysis),
    "Add property types (int, long, varchar, string, boolean, decimal)"),
    ~hasDreamllProperties(analysis),
    "Include Dream11-specific properties like source, roundId, tourId when relevant"),
    PropertyCoverage(analysis.events) = "moderate",
    "Add more relevant properties to events (aim for 3+ per event)"),
    PropertyCoverage(analysis.events) = "none",
    "Events need more properties - most Dream11 events have 3+ properties"),
    ConfidenceLevel(analysis.events) = "low",
    "Low confidence - consider providing clearer screenshots"),
    ~(hasGlobalProperty(analysis, "user_id") /\ hasGlobalProperty(analysis, "timestamp")),
    "Include user_id and timestamp in global properties"),
    ~hasContextualProps(analysis),
    "Add contextual properties like source and section for better tracking")

assessAnalysisQuality(analysis) ==
  [score |-> FMin(Literal(100), QualityScore(analysis)),
   feedback |-> QualityFeedback(analysis),
   improvements |-> QualityImprovements(analysis)]

\* results to assess: none, one or two events of six kinds, and three
\* lists of global properties
AssessedEvent(name, properties, confidence) ==
  [name |-> name, properties |-> properties, confidence |-> confidence]

AssessedEvents ==
  {AssessedEvent(<<"tap">>, << >>, Literal(50)),
   AssessedEvent(<<"Banner", "Clicked">>,
                 <<Property("source", "varchar"), Property("bannerId", "long"), Property("x", "")>>,
                 Literal(90)),
   AssessedEvent(<<"view">>, <<Property("Screen", "Object")>>, Literal(70)),
   AssessedEvent(<<"swipe">>, <<Property("roundId", "")>>, Literal(90)),
   AssessedEvent(<<"x">>, <<Property("n", "INT")>>, Literal(70)),
   AssessedEvent(<<"x">>, <<Property("n", "INT")>>, Literal(90))}

AssessedGlobals ==
  {<< >>, <<[name |-> "user_id"]>>, <<[name |-> "user_id"], [name |-> "timestamp"]>>}

AssessedAnalyses ==
  {[events |-> events, globalProperties |-> globals] :
     events \in {<< >>} \cup {<<a>> : a \in AssessedEvents}
                \cup {<<a, b>> : a \in AssessedEvents, b \in AssessedEvents},
     globals \in AssessedGlobals}

AssessAnalysisQuality ==
  /\ arg.fn = "assessAnalysisQuality"
  /\ ~ret.done
  /\ ret' = [done |-> TRUE, value |-> assessAnalysisQuality(arg.value)]
  /\ UNCHANGED <<clock, arg, parserVars, analyzeVars, ragVars, appVars>>

Truth(condition) == IF condition THEN 1 ELSE 0
Tier(high, mid) == IF high THEN 2 ELSE IF mid THEN 1 ELSE 0

\* the heuristics a result satisfies, and the tier where there are tiers
Heuristics(analysis) ==
  <<Truth(hasDreamllNaming(analysis)), Truth(hasTypedProperties(analysis)),
    Truth(hasDreamllProperties(analysis)),
    Tier(avgPropertiesAtLeast(analysis.events, 3), avgPropertiesAtLeast(analysis.events, 1)),
    Tier(avgConfidenceAtLeast(analysis.events, Literal(80)),
         avgConfidenceAtLeast(analysis.events, Literal(60))),
    Truth(hasGlobalProperty(analysis, "user_id") /\ hasGlobalProperty(analysis, "timestamp")),
    Truth(hasContextualProps(analysis))>>

AtLeastAs(b, a) == \A k \in 1..Len(a) : b[k] >= a[k]

\* C12: a result that satisfies every heuristic the assessed result
\* satisfies, in tiers at least as high, has a score at least as high; the
\* score is never above 1.0
C12_ScoreMonotone ==
  (ret.done /\ arg.fn = "assessAnalysisQuality") =>
    /\ ~FLess(Literal(100), ret.value.score)
    /\ \A b \in AssessedAnalyses :
         AtLeastAs(Heuristics(b), Heuristics(arg.value)) =>
           ~FLess(assessAnalysisQuality(b).score, ret.value.score)

\* C12 witness: a result that satisfies every heuristic in the highest tier,
\* whose bonuses add up to 1.25, is given the score 1.0
C12_AllBonusesCapped ==
  /\ ret.done
  /\ arg.fn = "assessAnalysisQuality"
  /\ Heuristics(arg.value) = <<1, 1, 1, 2, 2, 1, 1>>
  /\ ret.value.score = [d |-> 100, e |-> 0]

\* ------------------------------------------------------------------------
\* RAGService.retrieveRelevantPatterns and retrieveDomainKnowledge, applied
\* to the values of the map in insertion order. Array.prototype.sort is
\* stable: an element goes after the elements the comparator does not put
\* behind it
\* ------------------------------------------------------------------------
Slice(array, count) == SubSeq(array, 1, IF Len(array) < count THEN Len(array) ELSE count)

\* the filter letting the threshold itself through
RECURSIVE ScoreAboveOrAt(_, _, _)
ScoreAboveOrAt(patterns, threshold, i) ==
  IF i > Len(patterns) THEN << >>
  ELSE IF ~FLess(patterns[i].confidenceScore, threshold)
       THEN <<patterns[i]>> \o ScoreAboveOrAt(patterns, threshold, i + 1)
       ELSE ScoreAboveOrAt(patterns, threshold, i + 1)

RECURSIVE ScoreAbove(_, _, _)
ScoreAbove(patterns, threshold, i) ==
  IF i > Len(patterns) THEN << >>
  ELSE IF FLess(threshold, patterns[i].confidenceScore)
       THEN <<patterns[i]>> \o ScoreAbove(patterns, threshold, i + 1)
       ELSE ScoreAbove(patterns, threshold, i + 1)

\* b.confidenceScore - a.confidenceScore > 0: a sorts behind b
Behind(a, b) == FLess(a.confidenceScore, b.confidenceScore)

RECURSIVE InsertSorted(_, _, _)
InsertSorted(sorted, pattern, i) ==
  IF i > Len(sorted) THEN Append(sorted, pattern)
  ELSE IF Behind(sorted[i], pattern)
       THEN SubSeq(sorted, 1, i - 1) \o <<pattern>> \o SubSeq(sorted, i, Len(sorted))
       ELSE InsertSorted(sorted, pattern, i + 1)

RECURSIVE SortByScore(_, _, _)
SortByScore(sorted, patterns, i) ==
  IF i > Len(patterns) THEN sorted
  ELSE SortByScore(InsertSorted(sorted, patterns[i], 1), patterns, i + 1)

retrieveRelevantPatternsUnsorted(patterns) ==
  Slice(ScoreAbove(patterns, Literal(70), 1), 3)
retrieveRelevantPatterns(patterns) ==
  Slice(SortByScore(<< >>, ScoreAbove(patterns, Literal(70), 1), 1), 3)

RECURSIVE ConfidenceAbove(_, _, _)
ConfidenceAbove(knowledge, threshold, i) ==
  IF i > Len(knowledge) THEN << >>
  ELSE IF FLess(threshold, knowledge[i].confidence)
       THEN <<knowledge[i]>> \o ConfidenceAbove(knowledge, threshold, i + 1)
       ELSE ConfidenceAbove(knowledge, threshold, i + 1)

\* the three items above the threshold that were set last
retrieveDomainKnowledgeLatest(knowledge) ==
  SubSeq(ConfidenceAbove(knowledge, Literal(80), 1),
         IF Len(ConfidenceAbove(knowledge, Literal(80), 1)) > 3
         THEN Len(ConfidenceAbove(knowledge, Literal(80), 1)) - 2 ELSE 1,
         Len(ConfidenceAbove(knowledge, Literal(80), 1)))
retrieveDomainKnowledge(knowledge) ==
  Slice(ConfidenceAbove(knowledge, Literal(80), 1), 3)

\* pattern maps of up to four screen types with scores at, below and above
\* the threshold
MaxPatterns == 4
ScreenTypes == <<"user_action", "screen_view", "navigation", "form_input", "transaction">>
RetrievedScores == {Literal(60), Literal(70), Literal(72), Literal(80), Literal(100)}

PatternMaps ==
  UNION {{[i \in 1..n |-> PatternWith(ScreenTypes[i], <<"tap">>, scores[i])] :
            scores \in [1..n -> RetrievedScores]} : n \in 0..MaxPatterns}

\* knowledge maps: the seeded items, and the seeded items with what each
\* feedback adds
KnowledgeMaps ==
  {seedDomainKnowledge(<< >>)}
  \cup {updateDomainKnowledge(seedDomainKnowledge(<< >>), UserFeedback(i, 0)) :
          i \in 1..Len(Corrections)}
  \cup {updateDomainKnowledge(<< >>, UserFeedback(i, 0)) : i \in 1..Len(Corrections)}

RetrieveRelevantPatterns ==
  /\ arg.fn = "retrieveRelevantPatterns"
  /\ ~ret.done
  /\ ret' = [done |-> TRUE, value |-> retrieveRelevantPatterns(arg.value)]
  /\ UNCHANGED <<clock, arg, parserVars, analyzeVars, ragVars, appVars>>

RetrieveDomainKnowledge ==
  /\ arg.fn = "retrieveDomainKnowledge"
  /\ ~ret.done
  /\ ret' = [done |-> TRUE, value |-> retrieveDomainKnowledge(arg.value)]
  /\ UNCHANGED <<clock, arg, parserVars, analyzeVars, ragVars, appVars>>

Returned(k) == \E j \in 1..Len(ret.value) : ret.value[j].id = arg.value[k].id

\* C13: retrieveRelevantPatterns returns at most 3 patterns of the map, each
\* with a score above 0.7, in descending order of score, and no pattern above
\* 0.7 that is left out has a higher score than a returned one
C13_TopPatternsRanked ==
  (ret.done /\ arg.fn = "retrieveRelevantPatterns") =>
    /\ Len(ret.value) <= 3
    /\ \A j \in 1..Len(ret.value) :
         /\ \E k \in 1..Len(arg.value) : arg.value[k] = ret.value[j]
         /\ FLess(Literal(70), ret.value[j].confidenceScore)
         /\ j > 1 => ~FLess(ret.value[j - 1].confidenceScore, ret.value[j].confidenceScore)
    /\ \A k \in 1..Len(arg.value) :
         (~Returned(k) /\ FLess(Literal(70), arg.value[k].confidenceScore)) =>
           /\ Len(ret.value) = 3
           /\ \A j \in 1..Len(ret.value) :
                ~FLess(ret.value[j].confidenceScore, arg.value[k].confidenceScore)

\* C13 witness: of four patterns above 0.7 held in ascending order of score,
\* the three with the highest scores are returned, highest first
C13_LowestLeftOut ==
  /\ ret.done
  /\ arg.fn = "retrieveRelevantPatterns"
  /\ Len(arg.value) = 4
  /\ arg.value[1].confidenceScore = Literal(72)
  /\ arg.value[3].confidenceScore = Literal(80)
  /\ arg.value[4].confidenceScore = Literal(100)
  /\ FLess(Literal(70), arg.value[2].confidenceScore)
  /\ Len(ret.value) = 3
  /\ ret.value[1] = arg.value[4]
  /\ ~Returned(1)

\* C14: retrieveDomainKnowledge returns at most 3 items of the map, each with
\* a confidence above 0.8, in descending order of confidence, and no item
\* above 0.8 that is left out has a higher confidence than a returned one
C14_TopKnowledgeRanked ==
  (ret.done /\ arg.fn = "retrieveDomainKnowledge") =>
    /\ Len(ret.value) <= 3
    /\ \A j \in 1..Len(ret.value) :
         /\ FLess(Literal(80), ret.value[j].confidence)
         /\ j > 1 => ~FLess(ret.value[j - 1].confidence, ret.value[j].confidence)
    /\ \A k \in 1..Len(arg.value) :
         (~Returned(k) /\ FLess(Literal(80), arg.value[k].confidence)) =>
           \A j \in 1..Len(ret.value) :
             ~FLess(ret.value[j].confidence, arg.value[k].confidence)

\* ------------------------------------------------------------------------
\* RAGService: the snapshot under rag_historical_data and the memory
\* ------------------------------------------------------------------------
IsPrefix(a, b) == Len(a) <= Len(b) /\ SubSeq(b, 1, Len(a)) = a

Persisted(c) == c \in 1..Len(calls) /\ calls[c].pc = "persisted"

\* C15 as stated: when a call of learnFromFeedback whose setItem did not
\* throw comes to its end, the snapshot holds exactly the feedback history
\* and the patterns of the memory, also when calls overlap
C15_SnapshotIsMemory ==
  \A c \in 1..Len(calls) :
    Persisted(c) =>
      /\ localStorage.present
      /\ localStorage.feedback = StoredFeedback(feedbackHistory)
      /\ localStorage.patterns = StoredPatterns(analysisPatterns)

\* C15 amended: when such a call comes to its end, the snapshot holds the
\* call's feedback and is the history as of the latest setItem, a prefix of
\* the history of the memory; when no call has stored feedback since, the
\* snapshot holds exactly the history and the patterns of the memory
C15_SnapshotAsOfPersist ==
  \A c \in 1..Len(calls) :
    Persisted(c) =>
      /\ localStorage.present
      /\ IsPrefix(localStorage.feedback, StoredFeedback(feedbackHistory))
      /\ \E k \in 1..Len(localStorage.feedback) :
           localStorage.feedback[k] = StoredFeedback(calls[c].feedback)[1]
      /\ Len(localStorage.feedback) = Len(feedbackHistory) =>
           localStorage.patterns = StoredPatterns(analysisPatterns)

\* C15 witness: a call whose setItem did not throw is about to end, and
\* another call has stored its feedback after that setItem
C15_StoredAfterPersist ==
  \E c \in 1..Len(calls) :
    /\ Persisted(c)
    /\ localStorage.present
    /\ Len(localStorage.feedback) < Len(feedbackHistory)
    /\ Len(localStorage.patterns) > 0

\* the memory of a new RAGService built over the snapshot: the constructor
\* runs loadHistoricalData and initializeKnowledgeBase seeds the knowledge
Reloaded ==
  [feedbackHistory |-> LoadedFeedback(localStorage, << >>),
   analysisPatterns |-> LoadedPatterns(localStorage, << >>),
   domainKnowledge |-> seedDomainKnowledge(<< >>)]

\* no call is in flight and the snapshot was written in this run by the last
\* call that stored feedback
SnapshotCurrent ==
  /\ calls = << >>
  /\ initialized
  /\ localStorage.present
  /\ localStorage.timestamp > 0
  /\ Len(localStorage.feedback) = Len(feedbackHistory)

\* C16: a service restarted from the snapshot the last completed
\* learnFromFeedback wrote has the feedback history, the patterns and the
\* domain knowledge the service had before the restart
C16_RestartReproduces ==
  SnapshotCurrent =>
    /\ Reloaded.feedbackHistory = feedbackHistory
    /\ Reloaded.analysisPatterns = analysisPatterns
    /\ Reloaded.domainKnowledge = domainKnowledge

\* ------------------------------------------------------------------------
\* RAGService.generateEnhancedPrompt: the prompt, section by section. The
\* fixed text of lines 161-179 is the section of the examples
\* ------------------------------------------------------------------------
RECURSIVE HistoricalInsights(_, _)
HistoricalInsights(history, i) ==
  IF i > Len(history) THEN << >>
  ELSE IF FLess(Literal(80), history[i].confidence) /\ history[i].userComments # ""
       THEN <<history[i].userComments>> \o HistoricalInsights(history, i + 1)
       ELSE HistoricalInsights(history, i + 1)

getHistoricalInsights(history) == Slice(HistoricalInsights(history, 1), 3)

\* enhanceAnalysisWithContext, after initializeKnowledgeBase
enhanceAnalysisWithContext(patterns, knowledge, history) ==
  [relevantPatterns |-> retrieveRelevantPatterns(patterns),
   domainContext |-> retrieveDomainKnowledge(knowledge),
   historicalInsights |-> getHistoricalInsights(history),
   confidenceBoosts |-> calculateConfidenceBoosts(retrieveRelevantPatterns(patterns))]

\* (boost * 100).toFixed(0): the integer nearest to the product, a tie going
\* away from zero
ToFixedOf(x) == IF x.d % 100 = 50 /\ x.e < 0 THEN x.d \div 100 ELSE (x.d + 50) \div 100
ToFixed(x) == IF FLess(x, Zero) THEN -ToFixedOf(Negated(x)) ELSE ToFixedOf(x)

PatternLines(pattern) ==
  <<[screenType |-> pattern.screenType, commonEvents |-> pattern.commonEvents,
     properties |-> [k \in 1..Len(pattern.successfulProperties) |->
                       pattern.successfulProperties[k].name]]>>
KnowledgeLines(knowledge) ==
  <<[title |-> knowledge.title, description |-> knowledge.description]>>
  \o (IF Len(knowledge.examples) > 0 /\ "eventName" \in DOMAIN knowledge.examples[1]
      THEN <<[example |-> knowledge.examples[1].eventName]>> ELSE << >>)
BoostLine(entry) == [eventName |-> entry.id, percent |-> ToFixed(FMul(entry.boost, Literal(10000)))]

RECURSIVE Section(_, _, _, _)
Section(title, values, Lines(_), i) ==
  IF Len(values) = 0 THEN << >>
  ELSE IF i > Len(values) THEN << >>
  ELSE (IF i = 1 THEN <<title>> ELSE << >>) \o Lines(values[i]) \o Section(title, values, Lines, i + 1)

InsightLine(insight) == <<insight>>
BoostLines(entry) == <<BoostLine(entry)>>

EnhancedPrompt(basePrompt, context) ==
  basePrompt
  \o <<"DREAM11 EVENT STRUCTURE EXAMPLES">>
  \o Section("LEARNED SUCCESSFUL PATTERNS", context.relevantPatterns, PatternLines, 1)
  \o Section("DOMAIN EXPERTISE", context.domainContext, KnowledgeLines, 1)
  \o Section("HISTORICAL INSIGHTS FROM USER CORRECTIONS", context.historicalInsights, InsightLine, 1)
  \o Section("HIGH-CONFIDENCE EVENTS", context.confidenceBoosts, BoostLines, 1)

generateEnhancedPrompt(basePrompt, patterns, knowledge, history) ==
  EnhancedPrompt(basePrompt, enhanceAnalysisWithContext(patterns, knowledge, history))

\* the prompt generateEnhancedPrompt gives for the service as it stands;
\* initializeKnowledgeBase seeds the knowledge of a service not initialized
PromptNow ==
  generateEnhancedPrompt(buildAnalysisPrompt, analysisPatterns,
                         IF initialized THEN domainKnowledge
                         ELSE seedDomainKnowledge(domainKnowledge),
                         feedbackHistory)

\* C18: the prompt analyzeScreenshots sends to the backend holds what
\* generateEnhancedPrompt adds for the service at the time of the request:
\* the examples and the sections of patterns, knowledge, insights and boosts
C18_PromptIsEnhanced ==
  analyzePc = "awaiting" =>
    \A k \in 1..Len(PromptNow) : Includes(prompt, PromptNow[k])

\* ------------------------------------------------------------------------
\* RAGService: calls of learnFromFeedback that overlap
\* ------------------------------------------------------------------------
HasStored(c) == calls[c].pc \in {"knowledge", "index", "persist", "persisted", "failed"}
\* the calls have interleaved: of two feedbacks of this run, each with an
\* event of the category user_action, the one whose call was made later was
\* stored first
Interleaved ==
  \E j, k \in 1..Len(feedbackHistory) :
    /\ j < k
    /\ feedbackHistory[j].timestamp.date
    /\ feedbackHistory[k].timestamp.date
    /\ feedbackHistory[j].timestamp.at > feedbackHistory[k].timestamp.at
    /\ CountEvents(feedbackHistory[j], "user_action") > 0
    /\ CountEvents(feedbackHistory[k], "user_action") > 0

\* a pattern counts fewer events than the feedback learned from holds for
\* its category
IncrementLost ==
  \E category \in Categories :
    Usage(analysisPatterns, category) < CountHistory(feedbackHistory, category, 1)

InHistory(feedback) == \E k \in 1..Len(feedbackHistory) : feedbackHistory[k] = feedback

\* C21: a call of learnFromFeedback whose setItem throws still comes to its
\* end, the memory keeps its feedback and the pattern changes, and a write
\* that succeeds later stores the whole memory, that feedback included
C21_FailedWriteKeepsMemory ==
  /\ [](\A c \in 1..Len(calls) :
          calls[c].pc = "failed" =>
            /\ ENABLED LearnDone(c)
            /\ InHistory(calls[c].feedback[1])
            /\ \A category \in Categories :
                 Usage(analysisPatterns, category) = CountHistory(feedbackHistory, category, 1))
  /\ [][/\ IsPrefix(feedbackHistory, feedbackHistory')
        /\ \A c \in 1..Len(calls) :
             /\ (calls[c].pc = "persist" /\ Len(calls') = Len(calls) /\ calls'[c].pc = "failed") =>
                  UNCHANGED <<feedbackHistory, analysisPatterns, localStorage>>
             /\ (calls[c].pc = "persist" /\ Len(calls') = Len(calls) /\ calls'[c].pc = "persisted") =>
                  /\ localStorage'.feedback = StoredFeedback(feedbackHistory')
                  /\ localStorage'.patterns = StoredPatterns(analysisPatterns')]_vars

\* C21 witness: the write of one call failed, the write of another succeeded,
\* and the snapshot holds the feedback of both with the pattern changes
C21_LaterWriteHoldsBoth ==
  /\ Len(calls) = 2
  /\ \E c, d \in 1..2 :
       /\ calls[c].pc = "failed"
       /\ calls[d].pc = "persisted"
       /\ \E j, k \in 1..Len(localStorage.feedback) :
            /\ j < k
            /\ localStorage.feedback[j] = StoredFeedback(calls[c].feedback)[1]
            /\ localStorage.feedback[k] = StoredFeedback(calls[d].feedback)[1]
  /\ localStorage.patterns = StoredPatterns(analysisPatterns)

\* ------------------------------------------------------------------------
\* RAGService: generateEnhancedPrompt on a service that has learned
\* ------------------------------------------------------------------------
MaxLearned == 2

\* the fields of an initialized service that nothing has been learned by,
\* over the snapshot an earlier run has left
FreshRepository(earlier) ==
  [history |-> LoadedFeedback(earlier, << >>),
   patterns |-> LoadedPatterns(earlier, << >>),
   knowledge |-> seedDomainKnowledge(<< >>),
   store |-> InMemoryVectorStore,
   snapshot |-> earlier]

\* learnFromFeedback run from its start to its end with no other call between
Learn(repository, feedback, now) ==
  [history |-> Append(repository.history, feedback),
   patterns |-> updatePatternsFromFeedback(repository.patterns, feedback, now),
   knowledge |-> updateDomainKnowledge(repository.knowledge, feedback),
   store |-> indexFeedback(repository.store, feedback),
   snapshot |-> Stored(Append(repository.history, feedback),
                       updatePatternsFromFeedback(repository.patterns, feedback, now), now)]

RECURSIVE LearnedRepository(_, _, _)
LearnedRepository(earlier, numbers, k) ==
  IF k = 0 THEN FreshRepository(earlier)
  ELSE Learn(LearnedRepository(earlier, numbers, k - 1), UserFeedback(numbers[k], k - 1), k)

LearnedNumbers == UNION {[1..n -> 1..Len(Corrections)] : n \in 0..MaxLearned}
AnalysisTypes == {"events", "properties", "recommendations"}
PromptArguments ==
  {[fn |-> "generateEnhancedPrompt",
    value |-> [basePrompt |-> basePrompt, screenshots |-> shots, analysisType |-> type]] :
     basePrompt \in {<<"base">>, buildAnalysisPrompt}, shots \in {1}, type \in AnalysisTypes}

Holds(repository, learned) ==
  /\ clock = learned
  /\ initialized = TRUE
  /\ feedbackHistory = repository.history
  /\ analysisPatterns = repository.patterns
  /\ domainKnowledge = repository.knowledge
  /\ vectorStore = repository.store
  /\ localStorage = repository.snapshot
  /\ calls = << >>

EnhanceInit ==
  /\ AppQuiet
  /\ ParserQuiet
  /\ AnalyzeQuiet
  /\ \E earlier \in EarlierRuns, numbers \in LearnedNumbers :
       Holds(LearnedRepository(earlier, numbers, Len(numbers)), Len(numbers))
  /\ arg \in PromptArguments
  /\ ret = NoReturn

\* the retrieved patterns marked as used by the call
Touched(patterns) ==
  [k \in 1..Len(patterns) |->
     IF FLess(Literal(70), patterns[k].confidenceScore)
     THEN [patterns[k] EXCEPT !.usageCount = @ + 1] ELSE patterns[k]]
GenerateEnhancedPromptTouching ==
  /\ arg.fn = "generateEnhancedPrompt"
  /\ Len(ret.value) < 2
  /\ initialized
  /\ ret' = [done |-> TRUE,
             value |-> Append(ret.value,
                              generateEnhancedPrompt(arg.value.basePrompt, analysisPatterns,
                                                     domainKnowledge, feedbackHistory))]
  /\ analysisPatterns' = Touched(analysisPatterns)
  /\ UNCHANGED <<clock, arg, initialized, vectorStore, feedbackHistory, domainKnowledge,
                 localStorage, calls, parserVars, analyzeVars, appVars>>
\* generateEnhancedPrompt(basePrompt, screenshots, analysisType), called up to
\* twice with the same arguments; initializeKnowledgeBase returns at once on
\* an initialized service, and the query made of the screenshots and the
\* analysis type is not read by any retrieval
GenerateEnhancedPrompt ==
  /\ arg.fn = "generateEnhancedPrompt"
  /\ Len(ret.value) < 2
  /\ initialized
  /\ ret' = [done |-> TRUE,
             value |-> Append(ret.value,
                              generateEnhancedPrompt(arg.value.basePrompt, analysisPatterns,
                                                     domainKnowledge, feedbackHistory))]
  /\ UNCHANGED <<clock, arg, ragVars, parserVars, analyzeVars, appVars>>

EnhanceNext == GenerateEnhancedPrompt
SpecEnhance == EnhanceInit /\ [][EnhanceNext]_vars

PropertyTypes == {Str(<<"string">>), Str(<<"number">>), Str(<<"boolean">>), Str(<<"object">>)}
PropertySources == {Str(<<"on-screen">>), Str(<<"carried-forward">>), Str(<<"global">>)}

PropertiesTyped(properties) ==
  \A j \in 1..Len(properties) :
    /\ properties[j].type \in PropertyTypes
    /\ properties[j].source \in PropertySources

\* C23: every property of a parsed result has its type among string, number,
\* boolean, object and its source among on-screen, carried-forward, global,
\* a missing or unrecognised one replaced by 'string' and 'on-screen', and
\* every event has the category user_action and the confidence 0.85
C23_FieldsDefaulted ==
  \A k \in ran :
    ~parsed[k].mock =>
      \A e \in 1..Len(parsed[k].events) :
        /\ parsed[k].events[e].category = Str(<<"user_action">>)
        /\ parsed[k].events[e].confidence = <<"0.85">>
        /\ PropertiesTyped(parsed[k].events[e].properties)

\* ------------------------------------------------------------------------
\* RAGService: the lists of a pattern
\* ------------------------------------------------------------------------
NoNameTwice(names) == \A i, j \in 1..Len(names) : i # j => names[i] # names[j]
RepeatsProperty(event) ==
  \E i, j \in 1..Len(event.properties) :
    i # j /\ event.properties[i].name = event.properties[j].name

\* C24: in every state of the service each pattern's successfulProperties
\* holds no two properties of the same name and its commonEvents no name
\* twice
C24_PatternListsHoldNoDuplicate ==
  \A k \in 1..Len(analysisPatterns) :
    /\ NoNameTwice(analysisPatterns[k].commonEvents)
    /\ NoNameTwice([j \in 1..Len(analysisPatterns[k].successfulProperties) |->
                      analysisPatterns[k].successfulProperties[j].name])

\* C24 witness: the same feedback was learned twice in this run, with an
\* event that repeats a property name and an event name submitted again
C24_RepeatedSubmitted ==
  /\ calls = << >>
  /\ \E j, k \in 1..Len(feedbackHistory) :
       /\ j < k
       /\ feedbackHistory[j].timestamp.date
       /\ feedbackHistory[j].correctedEvents = feedbackHistory[k].correctedEvents
       /\ \E e \in 1..Len(feedbackHistory[j].correctedEvents) :
            RepeatsProperty(feedbackHistory[j].correctedEvents[e])
  /\ \E p \in 1..Len(analysisPatterns) :
       Len(analysisPatterns[p].commonEvents) = 2 /\ analysisPatterns[p].usageCount >= 6

\* ------------------------------------------------------------------------
\* AIAnalysisPanel: the editor of the events of userFlow.aiAnalysis. An event
\* is kept with its id, its name and its properties, a property with its
\* name and its type; every click comes at a later millisecond than the last
\* ------------------------------------------------------------------------
MaxEdits == 4
\* Date.now() when the panel is first shown, later than any index of the parser
Epoch == 10

EditedProperty(name, type) == [name |-> name, type |-> type]
EditedEvent(id, name, properties) == [id |-> id, name |-> name, properties |-> properties]

\* the events of an analysis as parseAIResponse numbers them
AnalysedEvents ==
  {<< >>,
   <<EditedEvent(<<"event_", 1>>, "x", <<EditedProperty("p", "number")>>)>>,
   <<EditedEvent(<<"event_", 1>>, "x", <<EditedProperty("p", "number")>>),
     EditedEvent(<<"event_", 2>>, "y", << >>)>>}

TypedNames == {"", "x", "y"}
TypedProperties == {"p", "new_property"}

\* the call of handleAnalyzeScreenshot that is waiting: the screenshot it
\* passed on and the id of the flow it created
Analysis(shot, flow) == [shot |-> shot, flow |-> flow]
\* the AIAnalysis object a call builds of the result; call names the call
AnalysisOf(call, events) == [call |-> call.flow, shot |-> call.shot, events |-> events]
Flow(id, analysis) == [present |-> TRUE, id |-> id, aiAnalysis |-> analysis]

\* the panel is shown with an analysis, and the user can still act
PanelShown ==
  /\ clock < Epoch + MaxEdits
  /\ activeTab = "ai-analysis"
  /\ userFlow.present
  /\ userFlow.aiAnalysis # << >>

PanelEvents == userFlow.aiAnalysis[1].events

\* updateAnalysis(updatedEvents), through onUpdateUserFlow to setUserFlow
updateAnalysis(updatedEvents) ==
  userFlow' = [userFlow EXCEPT !.aiAnalysis = <<[userFlow.aiAnalysis[1] EXCEPT !.events = updatedEvents]>>]

EditorInit ==
  /\ ParserQuiet
  /\ AnalyzeQuiet
  /\ RagQuiet
  /\ FunctionsQuiet
  /\ EditorQuiet
  /\ clock = Epoch
  /\ activeTab = "ai-analysis"
  /\ userFlow \in {Flow(Epoch - 1, <<AnalysisOf(Analysis(1, Epoch - 1), events)>>) : events \in AnalysedEvents}
  /\ isAnalyzing = FALSE
  /\ screenshotPreview = 1
  /\ showPreviewModal = FALSE
  /\ analyses = << >>

EditorFrame ==
  /\ clock' = clock + 1
  /\ UNCHANGED <<activeTab, isAnalyzing, screenshotPreview, showPreviewModal, analyses,
                 parserVars, analyzeVars, ragVars, functionVars>>

startEditingEvent(e) ==
  /\ PanelShown
  /\ editingEvent' = [editing |-> TRUE, eventId |-> PanelEvents[e].id]
  /\ tempEventName' = PanelEvents[e].name
  /\ EditorFrame
  /\ UNCHANGED <<userFlow, editingProperty, tempProperty>>

\* onChange of the input shown for the event that is edited
TypeEventName(name) ==
  /\ PanelShown
  /\ editingEvent.editing
  /\ \E e \in 1..Len(PanelEvents) : PanelEvents[e].id = editingEvent.eventId
  /\ tempEventName' = name
  /\ EditorFrame
  /\ UNCHANGED <<userFlow, editingEvent, editingProperty, tempProperty>>

Renamed(events, eventId, name) ==
  [k \in 1..Len(events) |-> IF events[k].id = eventId THEN [events[k] EXCEPT !.name = name]
                            ELSE events[k]]

\* the save button of the event that is edited
saveEventName(e) ==
  /\ PanelShown
  /\ editingEvent.editing
  /\ PanelEvents[e].id = editingEvent.eventId
  /\ IF tempEventName = ""
     THEN UNCHANGED <<userFlow, editingEvent, tempEventName>>
     ELSE /\ updateAnalysis(Renamed(PanelEvents, PanelEvents[e].id, tempEventName))
          /\ editingEvent' = NoEdit
          /\ tempEventName' = ""
  /\ EditorFrame
  /\ UNCHANGED <<editingProperty, tempProperty>>

Without(list, i) == [k \in 1..(Len(list) - 1) |-> IF k < i THEN list[k] ELSE list[k + 1]]

RECURSIVE WithoutId(_, _)
WithoutId(events, eventId) ==
  IF events = << >> THEN << >>
  ELSE (IF events[1].id = eventId THEN << >> ELSE <<events[1]>>) \o WithoutId(Tail(events), eventId)

deleteEvent(e) ==
  /\ PanelShown
  /\ updateAnalysis(WithoutId(PanelEvents, PanelEvents[e].id))
  /\ EditorFrame
  /\ UNCHANGED editorVars

NewEvent(now) == EditedEvent(<<"event_", now>>, "New Event", << >>)

addNewEvent ==
  /\ PanelShown
  /\ updateAnalysis(Append(PanelEvents, NewEvent(clock)))
  /\ EditorFrame
  /\ UNCHANGED editorVars

startEditingProperty(e, i) ==
  /\ PanelShown
  /\ editingProperty' = [editing |-> TRUE, eventId |-> PanelEvents[e].id, propertyIndex |-> i]
  /\ tempProperty' = [editing |-> TRUE, value |-> PanelEvents[e].properties[i]]
  /\ EditorFrame
  /\ UNCHANGED <<userFlow, editingEvent, tempEventName>>

\* the property that is edited is shown with its inputs and its save button
PropertyEdited(e) ==
  /\ editingProperty.editing
  /\ PanelEvents[e].id = editingProperty.eventId
  /\ editingProperty.propertyIndex \in 1..Len(PanelEvents[e].properties)

\* onChange of the name input: setTempProperty(prev => prev ? {...prev, name} : null)
TypePropertyName(name) ==
  /\ PanelShown
  /\ \E e \in 1..Len(PanelEvents) : PropertyEdited(e)
  /\ tempProperty' = IF tempProperty.editing THEN [tempProperty EXCEPT !.value.name = name]
                     ELSE NoEdit
  /\ EditorFrame
  /\ UNCHANGED <<userFlow, editingEvent, tempEventName, editingProperty>>

Replaced(events, eventId, index, property) ==
  [k \in 1..Len(events) |->
     IF events[k].id = eventId
     THEN [events[k] EXCEPT !.properties =
             [j \in 1..(IF index > Len(@) THEN index ELSE Len(@)) |->
                IF j = index THEN property ELSE @[j]]]
     ELSE events[k]]

saveProperty ==
  /\ PanelShown
  /\ \E e \in 1..Len(PanelEvents) : PropertyEdited(e)
  /\ IF ~tempProperty.editing
     THEN UNCHANGED <<userFlow, editingProperty, tempProperty>>
     ELSE /\ updateAnalysis(Replaced(PanelEvents, editingProperty.eventId,
                                     editingProperty.propertyIndex, tempProperty.value))
          /\ editingProperty' = NoEdit
          /\ tempProperty' = NoEdit
  /\ EditorFrame
  /\ UNCHANGED <<editingEvent, tempEventName>>

PropertyDeleted(events, eventId, index) ==
  [k \in 1..Len(events) |->
     IF events[k].id = eventId THEN [events[k] EXCEPT !.properties = Without(@, index)]
     ELSE events[k]]

deleteProperty(e, i) ==
  /\ PanelShown
  /\ updateAnalysis(PropertyDeleted(PanelEvents, PanelEvents[e].id, i))
  /\ EditorFrame
  /\ UNCHANGED editorVars

NewProperty == EditedProperty("new_property", "string")

PropertyAdded(events, eventId) ==
  [k \in 1..Len(events) |->
     IF events[k].id = eventId THEN [events[k] EXCEPT !.properties = Append(@, NewProperty)]
     ELSE events[k]]

addProperty(e) ==
  /\ PanelShown
  /\ updateAnalysis(PropertyAdded(PanelEvents, PanelEvents[e].id))
  /\ EditorFrame
  /\ UNCHANGED editorVars

\* the cancel buttons: setEditingEvent(null), setEditingProperty(null)
CancelEditingEvent ==
  /\ PanelShown
  /\ editingEvent.editing
  /\ \E e \in 1..Len(PanelEvents) : PanelEvents[e].id = editingEvent.eventId
  /\ editingEvent' = NoEdit
  /\ EditorFrame
  /\ UNCHANGED <<userFlow, tempEventName, editingProperty, tempProperty>>

CancelEditingProperty ==
  /\ PanelShown
  /\ \E e \in 1..Len(PanelEvents) : PropertyEdited(e)
  /\ editingProperty' = NoEdit
  /\ EditorFrame
  /\ UNCHANGED <<userFlow, editingEvent, tempEventName, tempProperty>>

EditorNext ==
  \/ \E e \in 1..Len(PanelEvents) : startEditingEvent(e)
  \/ \E name \in TypedNames : TypeEventName(name)
  \/ \E e \in 1..Len(PanelEvents) : saveEventName(e)
  \/ CancelEditingEvent
  \/ \E e \in 1..Len(PanelEvents) : deleteEvent(e)
  \/ addNewEvent
  \/ \E e \in 1..Len(PanelEvents) : \E i \in 1..Len(PanelEvents[e].properties) :
       startEditingProperty(e, i)
  \/ \E name \in TypedProperties : TypePropertyName(name)
  \/ saveProperty
  \/ CancelEditingProperty
  \/ \E e \in 1..Len(PanelEvents) : \E i \in 1..Len(PanelEvents[e].properties) :
       deleteProperty(e, i)
  \/ \E e \in 1..Len(PanelEvents) : addProperty(e)

SpecEditor == EditorInit /\ [][EditorNext]_vars

\* C25: after any sequence of editor operations the ids of the events of the
\* result are pairwise distinct and, within each event, so are the names of
\* its properties
C25_EditsKeepNamesUnique ==
  userFlow.aiAnalysis # << >> =>
    /\ \A i, j \in 1..Len(PanelEvents) : i # j => PanelEvents[i].id # PanelEvents[j].id
    /\ \A e \in 1..Len(PanelEvents) :
         \A i, j \in 1..Len(PanelEvents[e].properties) :
           i # j => PanelEvents[e].properties[i].name # PanelEvents[e].properties[j].name

\* ------------------------------------------------------------------------
\* RAGService: the patterns a retrieval returns after feedback was learned
\* ------------------------------------------------------------------------
Retrieved(patternId) ==
  \E k \in 1..Len(retrieveRelevantPatterns(analysisPatterns)) :
    retrieveRelevantPatterns(analysisPatterns)[k].id = patternId

\* the patterns that sort before pattern k: a higher score, or the same score
\* and an earlier place in the map
Ahead(patterns, k) ==
  Cardinality({j \in 1..Len(patterns) :
                 /\ FLess(Literal(70), patterns[j].confidenceScore)
                 /\ \/ FLess(patterns[k].confidenceScore, patterns[j].confidenceScore)
                    \/ patterns[j].confidenceScore = patterns[k].confidenceScore /\ j < k})

\* C26 as stated: when the calls of learnFromFeedback have ended, the pattern
\* of the category of every corrected event learned is among the patterns
\* retrieveRelevantPatterns returns
C26_LearnedPatternRetrieved ==
  calls = << >> =>
    \A f \in 1..Len(feedbackHistory) :
      \A e \in 1..Len(feedbackHistory[f].correctedEvents) :
        Retrieved(PatternId(feedbackHistory[f].correctedEvents[e]))

\* C26 amended: a pattern is among the patterns retrieveRelevantPatterns
\* returns exactly when at least three corrected events of its category were
\* learned, which takes its score from 0.5 above 0.7, and fewer than three
\* patterns sort before it
C26_RetrievedFromThirdEvent ==
  \A k \in 1..Len(analysisPatterns) :
    Retrieved(analysisPatterns[k].id)
      <=> (analysisPatterns[k].usageCount >= 3 /\ Ahead(analysisPatterns, k) < 3)

\* C26 witness: feedback was learned in this run, the pattern of one category
\* is returned and the pattern of another, learned from one event, is not
C26_OneReturnedOneNot ==
  /\ calls = << >>
  /\ \E f \in 1..Len(feedbackHistory) : feedbackHistory[f].timestamp.date
  /\ \E j, k \in 1..Len(analysisPatterns) :
       /\ Retrieved(analysisPatterns[j].id)
       /\ ~Retrieved(analysisPatterns[k].id)
       /\ analysisPatterns[k].usageCount = 1

\* ------------------------------------------------------------------------
\* RAGService: learnFromFeedback given feedback that makes a step throw
\* ------------------------------------------------------------------------
EventWithout(name, category) == [name |-> name, category |-> category]

\* feedback as a caller without the type checker can pass it: the second
\* corrected event has no properties list
Untyped == <<
  [analysisId |-> "a3",
   correctedEvents |-> <<Event("tap", "user_action", <<Property("r", "string")>>),
                         EventWithout("scroll", "screen_view"),
                         Event("swipe", "user_action", << >>)>>,
   userComments |-> "bad", confidence |-> Literal(90), timestamp |-> Date(0),
   eventNameChanges |-> << <<"clk", "press">> >>] >>

learnFromUntyped(i) == Invoked([Untyped[i] EXCEPT !.timestamp = Date(clock)])

LearnNext ==
  \/ \E i \in 1..Len(Untyped) : learnFromUntyped(i)
  \/ RagNext

SpecLearn == RagInit /\ [][LearnNext]_vars

\* the corrected events of a category that come before the first event
\* without a properties list
RECURSIVE EventsBefore(_, _, _)
EventsBefore(correctedEvents, category, i) ==
  IF i > Len(correctedEvents) THEN 0
  ELSE IF ~HasList(correctedEvents[i]) THEN 0
  ELSE (IF correctedEvents[i].category = category THEN 1 ELSE 0)
       + EventsBefore(correctedEvents, category, i + 1)

\* C27: a call of learnFromFeedback in which updatePatternsFromFeedback throws
\* comes to its end without raising; its feedback stays in feedbackHistory,
\* the patterns keep the updates of the events before the failing one, and
\* the call changes neither the knowledge nor the vector store nor the
\* snapshot, then or later
C27_CaughtKeepsEarlierChanges ==
  /\ [](\A c \in 1..Len(calls) :
          calls[c].pc = "caught" => ENABLED LearnDone(c) /\ InHistory(calls[c].feedback[1]))
  /\ [][\A c \in 1..Len(calls) :
          /\ (calls[c].pc = "learn" /\ Len(calls') = Len(calls) /\ calls'[c].pc = "caught") =>
               /\ feedbackHistory' = Append(feedbackHistory, calls[c].feedback[1])
               /\ \A category \in Categories :
                    Usage(analysisPatterns', category)
                      = Usage(analysisPatterns, category)
                        + EventsBefore(calls[c].feedback[1].correctedEvents, category, 1)
               /\ UNCHANGED <<domainKnowledge, vectorStore, localStorage>>
          /\ (calls[c].pc = "caught" /\ Len(calls') = Len(calls)) => calls'[c] = calls[c]
          /\ (calls[c].pc = "caught" /\ calls' = RemoveAt(calls, c)) =>
               UNCHANGED <<feedbackHistory, analysisPatterns, domainKnowledge, vectorStore,
                           localStorage>>]_vars

\* C27 witness: a call was caught; its feedback is in the history, the
\* property of its first event is in the pattern, and no snapshot holds it
C27_CaughtAfterFirstEvent ==
  /\ \E c \in 1..Len(calls) : calls[c].pc = "caught" /\ InHistory(calls[c].feedback[1])
  /\ MapHas(analysisPatterns, <<"user_action", "_pattern">>)
  /\ HasProperty(MapGet(analysisPatterns, <<"user_action", "_pattern">>).successfulProperties, "r")
  /\ \A k \in 1..Len(localStorage.feedback) : localStorage.feedback[k].analysisId # "a3"

\* ------------------------------------------------------------------------
\* RAGService: the knowledge a retrieval returns after feedback was learned
\* ------------------------------------------------------------------------
Learned(item) == item.id[1] = "naming_"

\* C28: once the knowledge is seeded, retrieveDomainKnowledge returns the
\* first three seeded items, whatever was learned from feedback; no item
\* learned from feedback is among them
C28_LearnedKnowledgeNotRetrieved ==
  domainKnowledge # << >> =>
    /\ retrieveDomainKnowledge(domainKnowledge) = SubSeq(dreamllKnowledge, 1, 3)
    /\ \A k \in 1..Len(retrieveDomainKnowledge(domainKnowledge)) :
         ~Learned(retrieveDomainKnowledge(domainKnowledge)[k])

\* C28 witness: the calls have ended and the knowledge holds an item learned
\* from feedback, with a confidence above the threshold of the retrieval
C28_KnowledgeLearned ==
  /\ calls = << >>
  /\ \E k \in 1..Len(domainKnowledge) :
       Learned(domainKnowledge[k]) /\ FLess(Literal(80), domainKnowledge[k].confidence)
  /\ Len(retrieveDomainKnowledge(domainKnowledge)) = 3

\* ------------------------------------------------------------------------
\* RAGService: the boost of an event that several retrieved patterns list
\* ------------------------------------------------------------------------
\* enhanceAnalysisWithContext on a service with the patterns given, the
\* seeded knowledge and no feedback
EnhanceAnalysisWithContext ==
  /\ arg.fn = "enhanceAnalysisWithContext"
  /\ ~ret.done
  /\ ret' = [done |-> TRUE,
             value |-> enhanceAnalysisWithContext(arg.value, seedDomainKnowledge(<< >>), << >>)]
  /\ UNCHANGED <<clock, arg, parserVars, analyzeVars, ragVars, appVars>>

Listing(patterns, eventName) ==
  {k \in 1..Len(patterns) : Includes(patterns[k].commonEvents, eventName)}

\* C29: the boost of an event name is the boost of the pattern with the
\* lowest score among the retrieved patterns that list the name
C29_BoostFromLowestPattern ==
  (ret.done /\ arg.fn = "enhanceAnalysisWithContext") =>
    \A b \in 1..Len(ret.value.confidenceBoosts) :
      \E k \in Listing(ret.value.relevantPatterns, ret.value.confidenceBoosts[b].id) :
        /\ \A j \in Listing(ret.value.relevantPatterns, ret.value.confidenceBoosts[b].id) :
             ~FLess(ret.value.relevantPatterns[j].confidenceScore,
                    ret.value.relevantPatterns[k].confidenceScore)
        /\ ret.value.confidenceBoosts[b].boost = PatternBoost(ret.value.relevantPatterns[k])

\* C29 witness: an event name listed by several retrieved patterns has a
\* boost below the boost of the highest of them
C29_BoostBelowHighest ==
  /\ ret.done
  /\ arg.fn = "enhanceAnalysisWithContext"
  /\ \E b \in 1..Len(ret.value.confidenceBoosts) :
       /\ Cardinality(Listing(ret.value.relevantPatterns, ret.value.confidenceBoosts[b].id)) >= 2
       /\ FLess(ret.value.confidenceBoosts[b].boost, PatternBoost(ret.value.relevantPatterns[1]))

\* ------------------------------------------------------------------------
\* AppContent: capturing a screenshot and analysing it. The preview modal
\* covers the page while it is shown; a call of handleAnalyzeScreenshot
\* waits for analyzeScreenshots while the user goes on
\* ------------------------------------------------------------------------
MaxAnalyses == 2
MaxClicks == 6
Tabs == {"drawing", "ai-analysis", "ai-config"}

ShellInit ==
  /\ clock = 0
  /\ ParserQuiet
  /\ AnalyzeQuiet
  /\ RagQuiet
  /\ FunctionsQuiet
  /\ AppQuiet

ModalShown == showPreviewModal /\ screenshotPreview # 0

\* a click at a later millisecond
Click ==
  /\ clock < MaxClicks
  /\ clock' = clock + 1
  /\ UNCHANGED <<parserVars, analyzeVars, ragVars, functionVars, editorVars>>

SetActiveTab(tab) ==
  /\ ~ModalShown
  /\ activeTab' = tab
  /\ Click
  /\ UNCHANGED <<userFlow, isAnalyzing, screenshotPreview, showPreviewModal, analyses>>

\* the button shown on the drawing tab; the capture handler of the drawing
\* editor calls back with a screenshot, or with the demo screenshot
captureJourneyScreenshot ==
  /\ ~ModalShown
  /\ activeTab = "drawing"
  /\ screenshotPreview' = clock + 1
  /\ showPreviewModal' = TRUE
  /\ Click
  /\ UNCHANGED <<activeTab, userFlow, isAnalyzing, analyses>>

handleClosePreviewModal ==
  /\ ModalShown
  /\ showPreviewModal' = FALSE
  /\ screenshotPreview' = 0
  /\ Click
  /\ UNCHANGED <<activeTab, userFlow, isAnalyzing, analyses>>

\* handleAnalyzeScreenshot up to the await of analyzeScreenshots
handleAnalyzeScreenshot ==
  /\ ModalShown
  /\ Len(analyses) < MaxAnalyses
  /\ showPreviewModal' = FALSE
  /\ isAnalyzing' = TRUE
  /\ activeTab' = "ai-analysis"
  /\ userFlow' = Flow(clock + 1, << >>)
  /\ analyses' = Append(analyses, Analysis(screenshotPreview, clock + 1))
  /\ Click
  /\ UNCHANGED screenshotPreview

\* handleAnalyzeScreenshot after the await: the promise of analyzeScreenshots
\* resolves with an analysis or rejects, and finally the flag is cleared
AnalysisReturns(c) ==
  /\ c \in 1..Len(analyses)
  /\ \E rejected \in BOOLEAN, events \in AnalysedEvents :
       userFlow' = IF rejected \/ ~userFlow.present THEN userFlow
                   ELSE [userFlow EXCEPT !.aiAnalysis = <<AnalysisOf(analyses[c], events)>>]
  /\ isAnalyzing' = FALSE
  /\ analyses' = RemoveAt(analyses, c)
  /\ UNCHANGED <<clock, activeTab, screenshotPreview, showPreviewModal,
                 parserVars, analyzeVars, ragVars, functionVars, editorVars>>

ShellNext ==
  \/ \E tab \in Tabs : SetActiveTab(tab)
  \/ captureJourneyScreenshot
  \/ handleClosePreviewModal
  \/ handleAnalyzeScreenshot
  \/ \E c \in 1..Len(analyses) : AnalysisReturns(c)

SpecShell == ShellInit /\ [][ShellNext]_vars

\* C30: isAnalyzing is set whenever a call of handleAnalyzeScreenshot is
\* waiting for its analysis, and the analysis attached to the user flow is
\* the one of the call started last, the call that created the flow
C30_LatestAnalysisShown ==
  /\ analyses # << >> => isAnalyzing
  /\ (userFlow.present /\ userFlow.aiAnalysis # << >>) =>
       userFlow.aiAnalysis[1].call = userFlow.id

\* ------------------------------------------------------------------------
\* RAGService: the functions applied on their own
\* ------------------------------------------------------------------------
Arguments ==
  {[fn |-> "calculateConfidenceBoosts", value |-> v] : v \in BoostArguments}
  \cup {[fn |-> "assessAnalysisQuality", value |-> v] : v \in AssessedAnalyses}
  \cup {[fn |-> "retrieveRelevantPatterns", value |-> v] : v \in PatternMaps}
  \cup {[fn |-> "retrieveDomainKnowledge", value |-> v] : v \in KnowledgeMaps}
  \cup {[fn |-> "enhanceAnalysisWithContext", value |-> v] : v \in PatternMaps}

FunctionsInit ==
  /\ AppQuiet
  /\ clock = 0
  /\ ParserQuiet
  /\ AnalyzeQuiet
  /\ RagQuiet
  /\ arg \in Arguments
  /\ ret = NoReturn

FunctionsNext ==
  \/ CalculateConfidenceBoosts
  \/ AssessAnalysisQuality
  \/ RetrieveRelevantPatterns
  \/ RetrieveDomainKnowledge
  \/ EnhanceAnalysisWithContext

SpecFunctions == FunctionsInit /\ [][FunctionsNext]_vars

====
